---- MODULE Spec2Model ----
(***************************************************************************)
(* A model of the canonical cluster model of aks-engine (package api):     *)
(* Properties.GetClusterID and the derived names built on it, the distro   *)
(* constants, and the conversion of the canonical model to and from the    *)
(* versioned external schemas.                                             *)
(***************************************************************************)
EXTENDS Integers, Sequences, FiniteSets, TLC

(***************************************************************************)
(* Bounds of the model.                                                    *)
(***************************************************************************)
\* number of goroutines sharing one Properties, each making one call
NumCallers == 2
\* longest list of upgrade targets of an OrchestratorVersionProfile
MaxUpgrades == 3

Callers == 1..NumCallers

(***************************************************************************)
(* Program constants.                                                      *)
(***************************************************************************)
Kubernetes == "Kubernetes"
DCOS == "DCOS"
Windows == "Windows"
Linux == "Linux"
AvailabilitySet == "AvailabilitySet"
VirtualMachineScaleSets == "VirtualMachineScaleSets"
DefaultOrchestratorName == "k8s"
DefaultHostedProfileMasterName == "aks"
\* uniqueNameSuffixSize := 8 in GetClusterID
uniqueNameSuffixSize == 8

\* a nil pointer
Nil == [nil |-> TRUE]
\* the data word of a string header that points at no bytes
NilData == "nildata"
\* a string header whose length word and data word come from different writes
Torn == "torn"

(***************************************************************************)
(* Text.  A string whose characters matter is a sequence of one-character  *)
(* strings; a name that is only copied or compared is a TLA+ string.       *)
(***************************************************************************)
DigitChars == <<"0", "1", "2", "3", "4", "5", "6", "7", "8", "9">>

IsDigitChar(c) == \E i \in 1..10 : DigitChars[i] = c

RECURSIVE Digits(_)
\* strconv-style decimal digits of a natural number, most significant first
Digits(n) == IF n < 10 THEN <<DigitChars[n + 1]>>
             ELSE Digits(n \div 10) \o <<DigitChars[(n % 10) + 1]>>

RECURSIVE PadLeft(_, _, _)
\* left padding of s with c up to width w; a longer s is left alone
PadLeft(s, w, c) == IF Len(s) >= w THEN s ELSE PadLeft(<<c>> \o s, w, c)

(***************************************************************************)
(* uint32 values are kept as two 16-bit halves <<hi, lo>> (value =         *)
(* hi * 65536 + lo), so that no intermediate result leaves 31 bits.        *)
(*   value = Upper(u) * 1000 + Lower3(u)                                   *)
(***************************************************************************)
Upper(u) == (u[1] * 65) + (((u[1] * 536) + u[2]) \div 1000)
Lower3(u) == ((u[1] * 536) + u[2]) % 1000

\* the decimal digits of a uint32, as strconv/fmt %d prints them
DecimalOf(u) == IF Upper(u) = 0 THEN Digits(Lower3(u))
                ELSE Digits(Upper(u)) \o PadLeft(Digits(Lower3(u)), 3, "0")

\* fmt.Sprintf("%8d", u): the width without the zero flag pads with spaces
Sprintf8d(u) == PadLeft(DecimalOf(u), 8, " ")

\* fmt.Sprintf("%08d", u): at least 8 characters, zero-padded on the left
Sprintf08d(u) == PadLeft(DecimalOf(u), 8, "0")

\* s[:n] of Go: the first n characters; out of range when s is shorter
SlicePrefix(s, n) == IF n <= Len(s) THEN SubSeq(s, 1, n) ELSE <<"panic">>

\* fmt.Sprintf("%08d", r.Uint32())[:uniqueNameSuffixSize]
FormatClusterID(u) == SlicePrefix(Sprintf08d(u), uniqueNameSuffixSize)

(***************************************************************************)
(* The canonical model: Properties and the profiles GetClusterID and the   *)
(* derived names read.  A nil pointer is the record Nil.  A string that is *)
(* split on "/" (VnetSubnetID) is kept as the sequence of its segments, as *)
(* strings.Split returns them: the empty string is <<"">>.                 *)
(***************************************************************************)
VARIABLES
  p,            \* the shared *Properties
  pc,           \* pc[c]: where goroutine c stands in its call
  call,         \* call[c]: the call goroutine c makes (op, its arguments)
  local,        \* local[c]: the locals of c's GetClusterID activation
  mutex,        \* mutex[c]: the sync.Mutex allocated by c's activation
  ret,          \* ret[c]: what c's call returned
  computeCount, \* number of times the cluster ID was computed for p
  u32,          \* a value r.Uint32() yields, as <<hi, lo>>
  formatted,    \* the cluster ID formatted from u32; <<>> before formatting
  ver,          \* the external schema version of the conversion
  cs,           \* the canonical ContainerService of the conversion
  ext,          \* the external document: the request, then ToVersioned's result
  back,         \* the external document converted back to canonical
  convPc,       \* where the conversion stands
  convErr,      \* the field the error of a failed conversion names; "" without error
  ovp,          \* the canonical *OrchestratorVersionProfile
  vlabsOvp,     \* the *vlabs.OrchestratorVersionProfile converted from ovp
  subnetCIDR,    \* the subnet given to GetFirstConsecutiveStaticIPAddress
  masterAvailabilityProfile, \* m.AvailabilityProfile of the MasterProfile called
  staticIP,     \* the address GetFirstConsecutiveStaticIPAddress returned
  props,        \* the *Properties the derived-property functions are called on
  derivedCall,  \* the derived-property function called last, and its index argument
  propsAtCall,  \* the Properties as that call found it
  derived,      \* what that call returned
  cloudCS,      \* the *ContainerService GetCloudSpecConfig is called on
  cloudSpec,    \* the AzureEnvironmentSpecConfig GetCloudSpecConfig returned
  cloudCall,    \* the text-returning cloud function called last, and its arguments
  cloudText,    \* the text that call returned, as the parts it is put together from
  twins,        \* two *Properties, each called by a goroutine of its own in turn
  twinStart,    \* the two Properties as they were before any call
  twinRet,      \* what GetClusterID returned for each; <<>> before it is called
  drawn,        \* how many cluster IDs the calls made so far have computed
  vhdPc,        \* the line the VHD build script stands at
  diskUsage,    \* the capacity df reports for /dev/sda1, in percent
  pulled,       \* how many components the script has downloaded
  releaseNotes, \* the lines of ${RELEASE_NOTES_FILEPATH}
  logDir,       \* where the directory that was /var/log at the start is
  cisApplied,   \* applyCIS has run
  vhdExit       \* how the script ended; "running" until then

clusterVars == <<p, pc, call, local, mutex, ret, computeCount>>
formatVars == <<u32, formatted>>
convVars == <<ver, cs, ext, back, convPc, convErr>>
ovpVars == <<ovp, vlabsOvp>>
staticIPVars == <<subnetCIDR, masterAvailabilityProfile, staticIP>>
deriveVars == <<props, derivedCall, propsAtCall, derived>>
cloudVars == <<cloudCS, cloudSpec, cloudCall, cloudText>>
twinVars == <<twins, twinStart, twinRet, drawn>>
vhdVars == <<vhdPc, diskUsage, pulled, releaseNotes, logDir, cisApplied, vhdExit>>
vars == <<clusterVars, formatVars, convVars, ovpVars,
    staticIPVars, deriveVars, cloudVars, twinVars, vhdVars>>
nonClusterVars == <<formatVars, convVars, ovpVars,
    staticIPVars, deriveVars, cloudVars, twinVars, vhdVars>>
nonFormatVars == <<clusterVars, convVars, ovpVars,
    staticIPVars, deriveVars, cloudVars, twinVars, vhdVars>>
nonConvVars == <<clusterVars, formatVars, ovpVars,
    staticIPVars, deriveVars, cloudVars, twinVars, vhdVars>>
nonOvpVars == <<clusterVars, formatVars, convVars,
    staticIPVars, deriveVars, cloudVars, twinVars, vhdVars>>
nonStaticIPVars == <<clusterVars, formatVars, convVars, ovpVars,
    deriveVars, cloudVars, twinVars, vhdVars>>
nonDeriveVars == <<clusterVars, formatVars, convVars, ovpVars,
    staticIPVars, cloudVars, twinVars, vhdVars>>
nonTwinVars ==
  <<clusterVars, formatVars, convVars, ovpVars, staticIPVars, deriveVars, cloudVars, vhdVars>>
nonVhdVars ==
  <<clusterVars, formatVars, convVars, ovpVars, staticIPVars, deriveVars, cloudVars, twinVars>>
nonCloudVars == <<clusterVars, formatVars, convVars, ovpVars,
    staticIPVars, deriveVars, twinVars, vhdVars>>

EmptySubnetID == <<"">>
CustomSubnetID == <<"", "subscriptions", "sub", "resourceGroups", "rg", "providers",
                    "Microsoft.Network", "virtualNetworks", "vnet", "subnets", "subnet">>

\* the string header stored in p.ClusterID: a data word and a length word
EmptyString == [data |-> NilData, len |-> 0]
StringOf(s) == [data |-> s, len |-> Len(s)]

\* the Go string a header denotes; a header with a length and no data is torn
StrVal(h) == IF h.len = 0 THEN <<>>
             ELSE IF h.data = NilData THEN <<Torn>>
             ELSE SubSeq(h.data, 1, h.len)

IsTorn(s) == s = <<Torn>>

\* a profile that carries a DcosConfig does not count as Kubernetes
OrchestratorProfile_IsKubernetesWithoutDcosConfig(o) ==
  o.OrchestratorType = Kubernetes /\ o.DcosConfig = Nil

OrchestratorProfile_IsKubernetes(o) == o.OrchestratorType = Kubernetes

MasterProfile_IsCustomVNET(m) == m.VnetSubnetID # EmptySubnetID

AgentPoolProfile_IsCustomVNET(a) == a.VnetSubnetID # EmptySubnetID

AgentPoolProfile_IsWindows(a) == a.OSType = Windows

AgentPoolProfile_IsVirtualMachineScaleSets(a) == a.AvailabilityProfile = VirtualMachineScaleSets

\* a hosted master counts only beside no master profile
IsHostedMasterProfileWithoutMaster(q) == q.HostedMasterProfile # Nil /\ q.MasterProfile = Nil

IsHostedMasterProfile(q) == q.HostedMasterProfile # Nil

AreAgentProfilesCustomVNET(q) ==
  IF ~q.AgentPoolProfilesNil
  THEN \A i \in 1..Len(q.AgentPoolProfiles) :
         AgentPoolProfile_IsCustomVNET(q.AgentPoolProfiles[i])
  ELSE FALSE

\* the hosted master profile is not looked at
K8sOrchestratorNameIgnoresHosted(q) ==
  IF OrchestratorProfile_IsKubernetes(q.OrchestratorProfile)
  THEN DefaultOrchestratorName
  ELSE ""

K8sOrchestratorName(q) ==
  IF OrchestratorProfile_IsKubernetes(q.OrchestratorProfile)
  THEN IF q.HostedMasterProfile # Nil THEN DefaultHostedProfileMasterName
       ELSE DefaultOrchestratorName
  ELSE ""

(***************************************************************************)
(* GetClusterID, lines 1566-1586.                                          *)
(***************************************************************************)
\* the hosted-master branch tested before the master branch
IdentifyingBytesHostedFirst(q) ==
  IF q.HostedMasterProfile # Nil THEN q.HostedMasterProfile.DNSPrefix
  ELSE IF q.MasterProfile # Nil THEN q.MasterProfile.DNSPrefix
  ELSE IF Len(q.AgentPoolProfiles) > 0 THEN q.AgentPoolProfiles[1].Name
  ELSE ""

\* the bytes written to the FNV-64a hash h: the first branch whose profile
\* is present decides, whatever the string it holds
IdentifyingBytes(q) ==
  IF q.MasterProfile # Nil THEN q.MasterProfile.DNSPrefix
  ELSE IF q.HostedMasterProfile # Nil THEN q.HostedMasterProfile.DNSPrefix
  ELSE IF Len(q.AgentPoolProfiles) > 0 THEN q.AgentPoolProfiles[1].Name
  ELSE ""

\* rand.New(rand.NewSource(int64(h.Sum64()))).Uint32(): hash/fnv and math/rand
\* are library code; the value is a function of the hashed bytes alone, given
\* here as a table over the names the model uses (as <<hi, lo>> halves)
Uint32Of(bytes) ==
  CASE bytes = "" -> <<0, 4077>>              \* 4077
    [] bytes = "master" -> <<65535, 65535>>   \* 4294967295
    [] bytes = "hosted" -> <<1525, 57600>>    \* 100000000
    [] bytes = "agent0" -> <<188, 24910>>     \* 12345678
    [] OTHER -> <<32768, 0>>                  \* 2147483648

ClusterIDFor(q) == FormatClusterID(Uint32Of(IdentifyingBytes(q)))

(***************************************************************************)
(* The derived names that embed the cluster ID, lines 1402-1532.  A name   *)
(* is the sequence of its parts; id is the value GetClusterID returned.    *)
(***************************************************************************)
Ops == {"GetClusterID", "GetMasterVMPrefix", "GetResourcePrefix", "GetAgentVMPrefix",
        "GetVirtualNetworkName", "GetPrimaryAvailabilitySetName"}

\* index arguments of GetAgentVMPrefix: -1 (no such pool) or a pool's index
IndexArgs(q) == {-1} \cup {i - 1 : i \in 1..Len(q.AgentPoolProfiles)}

\* the call dereferences a nil pointer or indexes out of range
Faults(q, o, index) ==
  /\ o = "GetVirtualNetworkName"
  /\ IF IsHostedMasterProfile(q) /\ AreAgentProfilesCustomVNET(q)
     THEN \/ Len(q.AgentPoolProfiles) = 0
          \/ Len(q.AgentPoolProfiles[1].VnetSubnetID) < 9
     ELSE IF ~IsHostedMasterProfile(q)
          THEN \/ q.MasterProfile = Nil
               \/ /\ MasterProfile_IsCustomVNET(q.MasterProfile)
                  /\ Len(q.MasterProfile.VnetSubnetID) < 9
          ELSE FALSE

\* the call reaches p.GetClusterID()
CallsGetClusterID(q, o, index) ==
  CASE o = "GetVirtualNetworkName" ->
         /\ ~(IsHostedMasterProfile(q) /\ AreAgentProfilesCustomVNET(q))
         /\ ~(~IsHostedMasterProfile(q) /\ MasterProfile_IsCustomVNET(q.MasterProfile))
    [] o = "GetPrimaryAvailabilitySetName" ->
         /\ Len(q.AgentPoolProfiles) > 0
         /\ q.AgentPoolProfiles[1].AvailabilityProfile = AvailabilitySet
    [] OTHER -> TRUE

\* nameSuffix[:4]
Prefix4(id) == IF IsTorn(id) THEN id ELSE SlicePrefix(id, 4)

GetAgentVMPrefix(q, index, id) ==
  IF index # -1
  THEN LET a == q.AgentPoolProfiles[index + 1] IN
       IF AgentPoolProfile_IsWindows(a)
       THEN IF a.WindowsNameVersion = "v2"
            THEN <<K8sOrchestratorName(q), a.Name>>
            ELSE Prefix4(id) \o <<K8sOrchestratorName(q)>> \o PadLeft(Digits(index), 2, "0")
       ELSE <<K8sOrchestratorName(q), "-", a.Name, "-">> \o id \o <<"-">>
            \o (IF AgentPoolProfile_IsVirtualMachineScaleSets(a) THEN <<"vmss">> ELSE <<>>)
  ELSE <<>>

GetMasterVMPrefix(q, id) == <<K8sOrchestratorName(q), "-master-">> \o id \o <<"-">>

GetResourcePrefix(q, id) ==
  IF IsHostedMasterProfile(q)
  THEN <<K8sOrchestratorName(q), "-agentpool-">> \o id \o <<"-">>
  ELSE <<K8sOrchestratorName(q), "-master-">> \o id \o <<"-">>

GetVirtualNetworkName(q, id) ==
  IF IsHostedMasterProfile(q) /\ AreAgentProfilesCustomVNET(q)
  THEN <<q.AgentPoolProfiles[1].VnetSubnetID[9]>>
  ELSE IF ~IsHostedMasterProfile(q) /\ MasterProfile_IsCustomVNET(q.MasterProfile)
       THEN <<q.MasterProfile.VnetSubnetID[9]>>
       ELSE <<K8sOrchestratorName(q), "-vnet-">> \o id

GetPrimaryAvailabilitySetName(q, id) ==
  IF Len(q.AgentPoolProfiles) > 0
  THEN IF q.AgentPoolProfiles[1].AvailabilityProfile = AvailabilitySet
       THEN <<q.AgentPoolProfiles[1].Name, "-availabilitySet-">> \o id
       ELSE <<>>
  ELSE <<>>

\* what the call returns, given the value its GetClusterID activation returned
Result(q, o, index, id) ==
  CASE o = "GetClusterID" -> id
    [] o = "GetMasterVMPrefix" -> GetMasterVMPrefix(q, id)
    [] o = "GetResourcePrefix" -> GetResourcePrefix(q, id)
    [] o = "GetAgentVMPrefix" -> GetAgentVMPrefix(q, index, id)
    [] o = "GetVirtualNetworkName" -> GetVirtualNetworkName(q, id)
    [] o = "GetPrimaryAvailabilitySetName" -> GetPrimaryAvailabilitySetName(q, id)

(***************************************************************************)
(* The cluster specifications the goroutines share.                        *)
(***************************************************************************)
KubernetesProfile == [OrchestratorType |-> Kubernetes]
DCOSProfile == [OrchestratorType |-> DCOS]

Master(prefix, subnetID) == [DNSPrefix |-> prefix, VnetSubnetID |-> subnetID]
HostedMaster(prefix) == [DNSPrefix |-> prefix]

LinuxPool == [Name |-> "agent0", OSType |-> Linux, AvailabilityProfile |-> AvailabilitySet,
              WindowsNameVersion |-> "", VnetSubnetID |-> EmptySubnetID]
ScaleSetPool == [Name |-> "agent0", OSType |-> Linux,
                 AvailabilityProfile |-> VirtualMachineScaleSets,
                 WindowsNameVersion |-> "", VnetSubnetID |-> CustomSubnetID]
WindowsPool == [Name |-> "agentw", OSType |-> Windows, AvailabilityProfile |-> AvailabilitySet,
                WindowsNameVersion |-> "", VnetSubnetID |-> EmptySubnetID]

\* a ClusterID that was already set when the object was loaded
LoadedClusterID == <<"2", "4", "5", "6", "8", "9", "5", "2">>

Props(id, o, m, h, a, n) ==
  [ClusterID |-> id, OrchestratorProfile |-> o, MasterProfile |-> m,
   HostedMasterProfile |-> h, AgentPoolProfiles |-> a, AgentPoolProfilesNil |-> n]

\* the cluster specifications of the model: self-hosted, hosted, agent pools
\* only, nothing at all, a master without a DNS prefix, both master profiles
PropertiesSamples ==
  {Props(EmptyString, KubernetesProfile, Master("master", EmptySubnetID), Nil,
         <<LinuxPool>>, FALSE),
   Props(StringOf(LoadedClusterID), KubernetesProfile, Master("master", EmptySubnetID), Nil,
         <<LinuxPool>>, FALSE),
   Props(EmptyString, KubernetesProfile, Nil, HostedMaster("hosted"),
         <<ScaleSetPool>>, FALSE),
   Props(StringOf(LoadedClusterID), KubernetesProfile, Nil, HostedMaster("hosted"),
         <<LinuxPool>>, FALSE),
   Props(EmptyString, KubernetesProfile, Nil, Nil, <<WindowsPool>>, FALSE),
   Props(EmptyString, DCOSProfile, Nil, Nil, <<>>, TRUE),
   Props(EmptyString, KubernetesProfile, Master("", CustomSubnetID), Nil,
         <<LinuxPool>>, FALSE),
   Props(EmptyString, KubernetesProfile, Master("master", EmptySubnetID),
         HostedMaster("hosted"), <<>>, FALSE)}

NoCall == [op |-> "none", index |-> -1, atStart |-> <<>>]
NoLocal == [hashed |-> "", newID |-> <<>>, stored |-> {}]
NoRet == [inner |-> FALSE, id |-> <<>>, value |-> <<>>]

ClusterInit ==
  /\ p \in PropertiesSamples
  /\ pc = [c \in Callers |-> "idle"]
  /\ call = [c \in Callers |-> NoCall]
  /\ local = [c \in Callers |-> NoLocal]
  /\ mutex = [c \in Callers |-> "none"]
  /\ ret = [c \in Callers |-> NoRet]
  /\ computeCount = 0

(***************************************************************************)
(* One goroutine's call.  Every goroutine makes one call; a second call of *)
(* the same goroutine is the call of another goroutine that starts after   *)
(* the first has returned.  Every read and write of a word of p.ClusterID  *)
(* is a step of its own: nothing orders the accesses of two goroutines.    *)
(* Steps that touch only the activation's own locals are taken together    *)
(* with the next step that touches p.                                      *)
(***************************************************************************)
\* a goroutine calls a method of p; `var mutex = &sync.Mutex{}` allocates
\* the activation's own mutex
Call(c, o, index) ==
  /\ pc[c] = "idle"
  /\ ~Faults(p, o, index)
  /\ call' = [call EXCEPT ![c] = [op |-> o, index |-> index, atStart |-> StrVal(p.ClusterID)]]
  /\ IF CallsGetClusterID(p, o, index)
     THEN /\ pc' = [pc EXCEPT ![c] = "check"]
          /\ mutex' = [mutex EXCEPT ![c] = "unlocked"]
     ELSE /\ pc' = [pc EXCEPT ![c] = "return"]
          /\ UNCHANGED mutex
  /\ UNCHANGED <<p, local, ret, computeCount, nonClusterVars>>

\* p.ClusterID == "" always taken for true: the ID is computed on every call
ClusterIDIsEmptyAlways(q) == TRUE

\* p.ClusterID == "": compares the length word with 0
ClusterIDIsEmpty(q) == q.ClusterID.len = 0

\* if p.ClusterID == ""
CheckEmpty(c) ==
  /\ pc[c] = "check"
  /\ pc' = [pc EXCEPT ![c] = IF ClusterIDIsEmpty(p) THEN "compute" ELSE "return"]
  /\ UNCHANGED <<p, call, local, mutex, ret, computeCount, nonClusterVars>>

\* h := fnv.New64a(); h.Write(...); r := rand.New(...); the value to store
Compute(c) ==
  /\ pc[c] = "compute"
  /\ local' = [local EXCEPT ![c].hashed = IdentifyingBytes(p),
                            ![c].newID = ClusterIDFor(p)]
  /\ computeCount' = computeCount + 1
  /\ pc' = [pc EXCEPT ![c] = "lock"]
  /\ UNCHANGED <<p, call, mutex, ret, nonClusterVars>>

\* the mutex this activation locks
MutexOf(c) == mutex[c]

\* mutex.Lock()
Lock(c) ==
  /\ pc[c] = "lock"
  /\ MutexOf(c) = "unlocked"
  /\ mutex' = [mutex EXCEPT ![c] = "locked"]
  /\ pc' = [pc EXCEPT ![c] = "store"]
  /\ UNCHANGED <<p, call, local, ret, computeCount, nonClusterVars>>

\* p.ClusterID = ...: the two words of the string header, in either order
StoreWord(c, w) ==
  /\ pc[c] = "store"
  /\ w \notin local[c].stored
  /\ p' = IF w = "len"
          THEN [p EXCEPT !.ClusterID.len = Len(local[c].newID)]
          ELSE [p EXCEPT !.ClusterID.data = local[c].newID]
  /\ local' = [local EXCEPT ![c].stored = @ \cup {w}]
  /\ pc' = [pc EXCEPT ![c] = IF local[c].stored \cup {w} = {"data", "len"}
                             THEN "unlock" ELSE "store"]
  /\ UNCHANGED <<call, mutex, ret, computeCount, nonClusterVars>>

\* mutex.Unlock()
Unlock(c) ==
  /\ pc[c] = "unlock"
  /\ mutex' = [mutex EXCEPT ![c] = "unlocked"]
  /\ pc' = [pc EXCEPT ![c] = "return"]
  /\ UNCHANGED <<p, call, local, ret, computeCount, nonClusterVars>>

\* return p.ClusterID: reads the two words of the string header (the length
\* word is non-zero by now and every store writes the same length, so only
\* the moment the data word is read matters and the two reads are one step);
\* then the calling method builds its name from the value and returns
Return(c) ==
  /\ pc[c] = "return"
  /\ LET inner == CallsGetClusterID(p, call[c].op, call[c].index)
         id == IF inner THEN StrVal(p.ClusterID) ELSE <<>>
     IN ret' = [ret EXCEPT ![c] = [inner |-> inner, id |-> id,
                                   value |-> Result(p, call[c].op, call[c].index, id)]]
  /\ pc' = [pc EXCEPT ![c] = "done"]
  /\ local' = [local EXCEPT ![c] = NoLocal]
  /\ mutex' = [mutex EXCEPT ![c] = "none"]
  /\ UNCHANGED <<p, call, computeCount, nonClusterVars>>

ClusterNext ==
  \E c \in Callers :
    \/ \E o \in Ops, index \in IndexArgs(p) :
         /\ (o # "GetAgentVMPrefix" => index = -1)
         /\ Call(c, o, index)
    \/ CheckEmpty(c)
    \/ Compute(c)
    \/ Lock(c)
    \/ \E w \in {"data", "len"} : StoreWord(c, w)
    \/ Unlock(c)
    \/ Return(c)

\* no document
NoDoc == [none |-> TRUE]

\* no conversion is under way
ConvIdle ==
  /\ ver = "vlabs"
  /\ cs = NoDoc
  /\ ext = NoDoc
  /\ back = NoDoc
  /\ convPc = "idle"
  /\ convErr = ""

\* no orchestrator version profile is converted
OvpIdle == ovp = NoDoc /\ vlabsOvp = NoDoc

\* GetFirstConsecutiveStaticIPAddress is not called
StaticIPIdle ==
  /\ subnetCIDR = <<>>
  /\ masterAvailabilityProfile = AvailabilitySet
  /\ staticIP = <<>>

\* no derived-property function is called
DeriveIdle == props = NoDoc /\ derivedCall = NoDoc /\ propsAtCall = NoDoc /\ derived = NoDoc

\* no cloud function is called
CloudIdle == cloudCS = NoDoc /\ cloudSpec = NoDoc /\ cloudCall = NoDoc /\ cloudText = NoDoc

\* no call is made on the two Properties
TwinIdle == twins = NoDoc /\ twinStart = NoDoc /\ twinRet = NoDoc /\ drawn = 0

\* the VHD build script is not run
VhdIdle ==
  /\ vhdPc = "off"
  /\ diskUsage = 0
  /\ pulled = 0
  /\ releaseNotes = <<>>
  /\ logDir = "/var/log"
  /\ cisApplied = FALSE
  /\ vhdExit = "running"

\* nothing but the calls on the Properties is under way
OthersIdleButCluster ==
  ConvIdle /\ OvpIdle /\ StaticIPIdle /\ DeriveIdle /\ CloudIdle /\ TwinIdle /\ VhdIdle

\* the formatting of the cluster ID is not under way
FormatIdle == u32 = <<0, 0>> /\ formatted = <<>>

\* concurrent calls of GetClusterID and of the derived names on one Properties
Init == ClusterInit /\ FormatIdle /\ OthersIdleButCluster
Spec == Init /\ [][ClusterNext]_vars

\* no call is made on the Properties
ClusterIdle ==
  /\ p = Props(EmptyString, KubernetesProfile, Nil, Nil, <<>>, TRUE)
  /\ pc = [c \in Callers |-> "idle"]
  /\ call = [c \in Callers |-> NoCall]
  /\ local = [c \in Callers |-> NoLocal]
  /\ mutex = [c \in Callers |-> "none"]
  /\ ret = [c \in Callers |-> NoRet]
  /\ computeCount = 0

(***************************************************************************)
(* The formatting of the cluster ID on its own, over the range of uint32:  *)
(* the values around every change of the number of digits and the ends.    *)
(***************************************************************************)
HiSamples == {0, 1, 15, 152, 1525, 1526, 15258, 15259, 32768, 65535}
LoSamples == {0, 1, 9, 999, 1000, 16959, 16960, 38527, 38528, 51711, 51712, 57599, 57600, 65535}
Uint32Samples == {<<hi, lo>> : hi \in HiSamples, lo \in LoSamples}

FormatInit == u32 \in Uint32Samples /\ formatted = <<>>

\* p.ClusterID = fmt.Sprintf("%08d", r.Uint32())[:uniqueNameSuffixSize]
Format ==
  /\ formatted = <<>>
  /\ formatted' = FormatClusterID(u32)
  /\ UNCHANGED <<u32, nonFormatVars>>

FormatNext == Format

FormatSpecInit == FormatInit /\ ClusterIdle /\ OthersIdleButCluster
FormatSpec == FormatSpecInit /\ [][FormatNext]_vars

(***************************************************************************)
(* The version converters.  The canonical ContainerService is converted to *)
(* and from five external schema versions.  The converter functions are    *)
(* called by the tests of the api package (ConvertContainerServiceToVLabs, *)
(* ConvertContainerServiceToV20160330, ...); they are modelled here as the *)
(* specification describes them (section 4.3): a field-by-field copy into  *)
(* the types of the target package, fields the target does not hold being *)
(* dropped (ToVersioned) or left at their zero value (ToCanonical).        *)
(*                                                                         *)
(* A document is a function from field names to values.  A Distro is a     *)
(* named string type of its package, [pkg, name]; a map is a function; a   *)
(* struct is a record, tagged with its package where the two packages      *)
(* declare it separately.                                                  *)
(***************************************************************************)
Versions == {"v20160330", "v20160930", "v20170131", "v20170701", "vlabs"}

\* Distro string consts
Ubuntu == "ubuntu"
Ubuntu1804 == "ubuntu-18.04"
RHEL == "rhel"
CoreOS == "coreos"
AKS1604Deprecated == "aks"
AKS1804Deprecated == "aks-1804"
AKSDockerEngine == "aks-docker-engine"
AKSUbuntu1604 == "aks-ubuntu-16.04"
AKSUbuntu1804 == "aks-ubuntu-18.04"
ACC1604 == "acc-16.04"

DistroNames ==
  {Ubuntu, Ubuntu1804, RHEL, CoreOS, AKS1604Deprecated, AKS1804Deprecated,
   AKSDockerEngine, AKSUbuntu1604, AKSUbuntu1804, ACC1604}

\* the distros the constants mark as deprecated
DeprecatedDistros == {AKS1604Deprecated, AKS1804Deprecated, AKSDockerEngine}

\* "deprecated AKS 16.04 distro. Equivalent to aks-ubuntu-16.04.",
\* "deprecated AKS 18.04 distro. Equivalent to aks-ubuntu-18.04."
DistroEquivalentSwapped(name) ==
  CASE name = AKS1604Deprecated -> AKSUbuntu1804
    [] name = AKS1804Deprecated -> AKSUbuntu1604
    [] OTHER -> name
DistroEquivalent(name) ==
  CASE name = AKS1604Deprecated -> AKSUbuntu1604
    [] name = AKS1804Deprecated -> AKSUbuntu1804
    [] OTHER -> name

AzureADIdentitySystem == "azure_ad"
ADFSIdentitySystem == "adfs"
ClientSecretAuthMethod == "client_secret"
ClientCertificateAuthMethod == "client_certificate"

\* Distro(name) of package api, vlabs.Distro(name)
ApiDistro(name) == [pkg |-> "api", name |-> name]
VLabsDistro(name) == [pkg |-> "vlabs", name |-> name]

(***************************************************************************)
(* The fields of a document.                                               *)
(***************************************************************************)
FOrchestratorType == "orchestratorProfile.orchestratorType"
FOrchestratorVersion == "orchestratorProfile.orchestratorVersion"
FMasterDNSPrefix == "masterProfile.dnsPrefix"
FMasterDistro == "masterProfile.distro"
FAgentDistro == "agentPoolProfiles.distro"
FAddonConfig == "orchestratorProfile.kubernetesConfig.addons.config"
FCustomCloudProfile == "customCloudProfile"
FClusterID == "ClusterID"
FNetworkPlugin == "orchestratorProfile.kubernetesConfig.networkPlugin"
FNetworkPolicy == "orchestratorProfile.kubernetesConfig.networkPolicy"
FProxyMode == "orchestratorProfile.kubernetesConfig.kubeProxyMode"

\* the fields of the canonical Properties
Fields ==
  {FOrchestratorType, FOrchestratorVersion, FMasterDNSPrefix, FMasterDistro,
   FAgentDistro, FAddonConfig, FCustomCloudProfile, FClusterID,
   FNetworkPlugin, FNetworkPolicy, FProxyMode}

DistroFields == {FMasterDistro, FAgentDistro}

\* the fields that hold a value of a closed set of strings
EnumFields == {FNetworkPlugin, FNetworkPolicy, FProxyMode}

NetworkPolicyAzure == "azure"
NetworkPolicyNone == "none"
NetworkPolicyCalico == "calico"
NetworkPolicyCilium == "cilium"
NetworkPluginKubenet == "kubenet"
NetworkPluginAzure == "azure"
NetworkPluginCilium == NetworkPolicyCilium
NetworkPluginFlannel == "flannel"
KubeProxyModeIPTables == "iptables"
KubeProxyModeIPVS == "ipvs"

\* the values an enum field may hold; "" is the field left out
ClosedSet(f) ==
  CASE f = FNetworkPlugin ->
         {"", NetworkPluginKubenet, NetworkPluginAzure, NetworkPluginCilium, NetworkPluginFlannel}
    [] f = FNetworkPolicy ->
         {"", NetworkPolicyAzure, NetworkPolicyNone, NetworkPolicyCalico, NetworkPolicyCilium}
    [] OTHER -> {"", KubeProxyModeIPTables, KubeProxyModeIPVS}

\* the fields each external version holds; ClusterID is held by none
FieldsOf(V) ==
  CASE V = "vlabs" -> Fields \ {FClusterID}
    [] V = "v20170701" -> {FOrchestratorType, FOrchestratorVersion, FMasterDNSPrefix}
    [] OTHER -> {FOrchestratorType, FMasterDNSPrefix}

\* the zero value of a canonical field
ZeroValue(f) ==
  CASE f \in DistroFields -> ApiDistro("")
    [] f = FAddonConfig -> <<>>
    [] f = FCustomCloudProfile -> Nil
    [] OTHER -> ""

(***************************************************************************)
(* The structs of a CustomCloudProfile, with the fields the tests set.     *)
(***************************************************************************)
EnvironmentFields ==
  {"Name", "ManagementPortalURL", "PublishSettingsURL", "ServiceManagementEndpoint",
   "ResourceManagerEndpoint", "ActiveDirectoryEndpoint", "GalleryEndpoint",
   "KeyVaultEndpoint", "GraphEndpoint", "ServiceBusEndpoint", "BatchManagementEndpoint",
   "StorageEndpointSuffix", "SQLDatabaseDNSSuffix", "TrafficManagerDNSSuffix",
   "KeyVaultDNSSuffix", "ServiceBusEndpointSuffix", "ServiceManagementVMDNSSuffix",
   "ResourceManagerVMDNSSuffix", "ContainerRegistryDNSSuffix", "TokenAudience"}

DockerSpecConfigFields == {"DockerEngineRepo", "DockerComposeDownloadURL"}

KubernetesSpecConfigFields ==
  {"KubernetesImageBase", "TillerImageBase", "ACIConnectorImageBase", "NVIDIAImageBase",
   "AzureCNIImageBase", "CalicoImageBase", "EtcdDownloadURLBase", "KubeBinariesSASURLBase",
   "WindowsTelemetryGUID", "CNIPluginsDownloadURL", "VnetCNILinuxPluginsDownloadURL",
   "VnetCNIWindowsPluginsDownloadURL", "ContainerdDownloadURLBase"}

DCOSSpecConfigFields ==
  {"DCOS188BootstrapDownloadURL", "DCOS190BootstrapDownloadURL", "DCOS198BootstrapDownloadURL",
   "DCOS110BootstrapDownloadURL", "DCOS111BootstrapDownloadURL",
   "DCOSWindowsBootstrapDownloadURL", "DcosRepositoryURL", "DcosClusterPackageListID",
   "DcosProviderPackageID"}

AzureEndpointConfigFields == {"ResourceManagerVMDNSSuffix"}

AzureOSImageConfigFields == {"ImageOffer", "ImageSku", "ImagePublisher", "ImageVersion"}

\* a struct whose every field holds a string naming the field, as the tests build them
NamedStruct(fields, prefix) == [f \in fields |-> prefix \o f]

\* the OS image of AKSUbuntu1604 (declared outside the tests; four strings of its own)
AKSUbuntu1604OSImageConfig ==
  [ImageOffer |-> "aks", ImageSku |-> "aks-ubuntu-1604", ImagePublisher |-> "microsoft-aks",
   ImageVersion |-> "latest"]

\* map[Distro]AzureOSImageConfig{Distro("Test"): {...}, AKSUbuntu1604: AKSUbuntu1604OSImageConfig}
TestOSImageConfig ==
  [d \in {ApiDistro("Test"), ApiDistro(AKSUbuntu1604)} |->
     IF d.name = "Test" THEN NamedStruct(AzureOSImageConfigFields, "")
     ELSE AKSUbuntu1604OSImageConfig]

\* the AzureEnvironmentSpecConfig of TestConvertAzureEnvironmentSpecConfigToVLabs
SpecConfig(osImageConfig) ==
  [pkg |-> "api",
   CloudName |-> "AzureStackCloud",
   DockerSpecConfig |-> NamedStruct(DockerSpecConfigFields, ""),
   KubernetesSpecConfig |-> NamedStruct(KubernetesSpecConfigFields, ""),
   DCOSSpecConfig |-> NamedStruct(DCOSSpecConfigFields, ""),
   EndpointConfig |-> NamedStruct(AzureEndpointConfigFields, ""),
   OSImageConfig |-> osImageConfig]

\* the azure.Environment of TestConvertCloudProfileToVLabs
TestEnvironment == NamedStruct(EnvironmentFields, "env.")

CustomCloud(environment, specConfig, identitySystem, authenticationMethod) ==
  [pkg |-> "api",
   Environment |-> environment,
   AzureEnvironmentSpecConfig |-> specConfig,
   IdentitySystem |-> identitySystem,
   AuthenticationMethod |-> authenticationMethod,
   DependenciesLocation |-> "public",
   PortalURL |-> "https://portal.example/"]

CustomCloudProfileSamples ==
  {Nil,
   CustomCloud(TestEnvironment, Nil, AzureADIdentitySystem, ClientSecretAuthMethod),
   CustomCloud(Nil, SpecConfig(TestOSImageConfig), ADFSIdentitySystem, ClientCertificateAuthMethod),
   CustomCloud(TestEnvironment, SpecConfig(<<>>), ADFSIdentitySystem, ClientSecretAuthMethod)}

\* KubernetesAddon.Config map[string]string
AddonConfigSamples ==
  {<<>>, [k \in {"hostPath", "max-history"} |-> IF k = "hostPath" THEN "/var/lib" ELSE "0"]}

(***************************************************************************)
(* Canonical to vlabs, value by value.                                     *)
(***************************************************************************)
\* vlabs.Distro(string(d)): a canonical distro is written out as it is
ConvertDistroToVLabs(d) == VLabsDistro(d.name)

\* copies an azure.Environment into a new one
ConvertEnvironmentGalleryMixUp(e) ==
  IF e = Nil THEN Nil
  ELSE [f \in EnvironmentFields |-> IF f = "GalleryEndpoint" THEN e.GraphEndpoint ELSE e[f]]
ConvertEnvironment(e) ==
  IF e = Nil THEN Nil
  ELSE [Name |-> e.Name,
        ManagementPortalURL |-> e.ManagementPortalURL,
        PublishSettingsURL |-> e.PublishSettingsURL,
        ServiceManagementEndpoint |-> e.ServiceManagementEndpoint,
        ResourceManagerEndpoint |-> e.ResourceManagerEndpoint,
        ActiveDirectoryEndpoint |-> e.ActiveDirectoryEndpoint,
        GalleryEndpoint |-> e.GalleryEndpoint,
        KeyVaultEndpoint |-> e.KeyVaultEndpoint,
        GraphEndpoint |-> e.GraphEndpoint,
        ServiceBusEndpoint |-> e.ServiceBusEndpoint,
        BatchManagementEndpoint |-> e.BatchManagementEndpoint,
        StorageEndpointSuffix |-> e.StorageEndpointSuffix,
        SQLDatabaseDNSSuffix |-> e.SQLDatabaseDNSSuffix,
        TrafficManagerDNSSuffix |-> e.TrafficManagerDNSSuffix,
        KeyVaultDNSSuffix |-> e.KeyVaultDNSSuffix,
        ServiceBusEndpointSuffix |-> e.ServiceBusEndpointSuffix,
        ServiceManagementVMDNSSuffix |-> e.ServiceManagementVMDNSSuffix,
        ResourceManagerVMDNSSuffix |-> e.ResourceManagerVMDNSSuffix,
        ContainerRegistryDNSSuffix |-> e.ContainerRegistryDNSSuffix,
        TokenAudience |-> e.TokenAudience]

ConvertDockerSpecConfig(c) ==
  [DockerEngineRepo |-> c.DockerEngineRepo,
   DockerComposeDownloadURL |-> c.DockerComposeDownloadURL]

ConvertKubernetesSpecConfig(c) ==
  [KubernetesImageBase |-> c.KubernetesImageBase,
   TillerImageBase |-> c.TillerImageBase,
   ACIConnectorImageBase |-> c.ACIConnectorImageBase,
   NVIDIAImageBase |-> c.NVIDIAImageBase,
   AzureCNIImageBase |-> c.AzureCNIImageBase,
   CalicoImageBase |-> c.CalicoImageBase,
   EtcdDownloadURLBase |-> c.EtcdDownloadURLBase,
   KubeBinariesSASURLBase |-> c.KubeBinariesSASURLBase,
   WindowsTelemetryGUID |-> c.WindowsTelemetryGUID,
   CNIPluginsDownloadURL |-> c.CNIPluginsDownloadURL,
   VnetCNILinuxPluginsDownloadURL |-> c.VnetCNILinuxPluginsDownloadURL,
   VnetCNIWindowsPluginsDownloadURL |-> c.VnetCNIWindowsPluginsDownloadURL,
   ContainerdDownloadURLBase |-> c.ContainerdDownloadURLBase]

ConvertDCOSSpecConfig(c) ==
  [DCOS188BootstrapDownloadURL |-> c.DCOS188BootstrapDownloadURL,
   DCOS190BootstrapDownloadURL |-> c.DCOS190BootstrapDownloadURL,
   DCOS198BootstrapDownloadURL |-> c.DCOS198BootstrapDownloadURL,
   DCOS110BootstrapDownloadURL |-> c.DCOS110BootstrapDownloadURL,
   DCOS111BootstrapDownloadURL |-> c.DCOS111BootstrapDownloadURL,
   DCOSWindowsBootstrapDownloadURL |-> c.DCOSWindowsBootstrapDownloadURL,
   DcosRepositoryURL |-> c.DcosRepositoryURL,
   DcosClusterPackageListID |-> c.DcosClusterPackageListID,
   DcosProviderPackageID |-> c.DcosProviderPackageID]

ConvertAzureEndpointConfig(c) ==
  [ResourceManagerVMDNSSuffix |-> c.ResourceManagerVMDNSSuffix]

ConvertAzureOSImageConfig(c) ==
  [ImageOffer |-> c.ImageOffer,
   ImageSku |-> c.ImageSku,
   ImagePublisher |-> c.ImagePublisher,
   ImageVersion |-> c.ImageVersion]

\* the keys removed in the target version: the only keys a converter may drop
RemovedKeys(V) == {}

\* for k, v := range m { converted[Distro(string(k))] = convert(v) }: the keys of
\* package `from` become keys of package `to`
ConvertOSImageConfigKnownDistros(m, V, from, to) ==
  [k \in {[pkg |-> to, name |-> d.name] : d \in {e \in DOMAIN m : e.name \in DistroNames}} |->
     ConvertAzureOSImageConfig(m[[pkg |-> from, name |-> k.name]])]
ConvertOSImageConfig(m, V, from, to) ==
  [k \in {[pkg |-> to, name |-> d.name] : d \in {e \in DOMAIN m : e.name \notin RemovedKeys(V)}} |->
     ConvertAzureOSImageConfig(m[[pkg |-> from, name |-> k.name]])]

\* for k, v := range config { converted[k] = v }
ConvertAddonConfig(m, V) ==
  [k \in {e \in DOMAIN m : e \notin RemovedKeys(V)} |-> m[k]]

ConvertAzureEnvironmentSpecConfig(s, V, from, to) ==
  IF s = Nil THEN Nil
  ELSE [pkg |-> to,
        CloudName |-> s.CloudName,
        DockerSpecConfig |-> ConvertDockerSpecConfig(s.DockerSpecConfig),
        KubernetesSpecConfig |-> ConvertKubernetesSpecConfig(s.KubernetesSpecConfig),
        DCOSSpecConfig |-> ConvertDCOSSpecConfig(s.DCOSSpecConfig),
        EndpointConfig |-> ConvertAzureEndpointConfig(s.EndpointConfig),
        OSImageConfig |-> ConvertOSImageConfig(s.OSImageConfig, V, from, to)]

ConvertCustomCloudProfile(c, V, from, to) ==
  IF c = Nil THEN Nil
  ELSE [pkg |-> to,
        Environment |-> ConvertEnvironment(c.Environment),
        AzureEnvironmentSpecConfig |->
          ConvertAzureEnvironmentSpecConfig(c.AzureEnvironmentSpecConfig, V, from, to),
        IdentitySystem |-> c.IdentitySystem,
        AuthenticationMethod |-> c.AuthenticationMethod,
        DependenciesLocation |-> c.DependenciesLocation,
        PortalURL |-> c.PortalURL]

\* the value of field f of the external document, from the canonical value v
ToVersionedFieldEmptyVersion(f, v, V) ==
  CASE f \in DistroFields -> ConvertDistroToVLabs(v)
    [] f = FAddonConfig -> ConvertAddonConfig(v, V)
    [] f = FCustomCloudProfile -> ConvertCustomCloudProfile(v, V, "api", "vlabs")
    [] f = FOrchestratorVersion -> ""
    [] OTHER -> v
ToVersionedFieldClosedEnums(f, v, V) ==
  CASE f \in DistroFields -> ConvertDistroToVLabs(v)
    [] f = FAddonConfig -> ConvertAddonConfig(v, V)
    [] f = FCustomCloudProfile -> ConvertCustomCloudProfile(v, V, "api", "vlabs")
    [] f \in EnumFields -> IF v \in ClosedSet(f) THEN v ELSE ""
    [] OTHER -> v
ToVersionedField(f, v, V) ==
  CASE f \in DistroFields -> ConvertDistroToVLabs(v)
    [] f = FAddonConfig -> ConvertAddonConfig(v, V)
    [] f = FCustomCloudProfile -> ConvertCustomCloudProfile(v, V, "api", "vlabs")
    [] OTHER -> v

\* ToVersioned: the fields V holds are copied, the others dropped
ToVersionedStrict(V, c) ==
  IF \E f \in Fields \ (FieldsOf(V) \cup {FClusterID}) : c[f] # ZeroValue(f)
  THEN [none |-> TRUE]
  ELSE [f \in FieldsOf(V) |-> ToVersionedField(f, c[f], V)]
ToVersioned(V, c) == [f \in FieldsOf(V) |-> ToVersionedField(f, c[f], V)]

(***************************************************************************)
(* External to canonical.                                                  *)
(***************************************************************************)
\* a deprecated alias is accepted and stored as its modern equivalent
ConvertVLabsDistro(d) ==
  IF d.name = AKSDockerEngine THEN ApiDistro(AKSUbuntu1604)
  ELSE ApiDistro(DistroEquivalent(d.name))

ToCanonicalField(f, v, V) ==
  CASE f \in DistroFields -> ConvertVLabsDistro(v)
    [] f = FAddonConfig -> ConvertAddonConfig(v, V)
    [] f = FCustomCloudProfile -> ConvertCustomCloudProfile(v, V, "vlabs", "api")
    [] OTHER -> v

\* the field that makes the external document x structurally wrong: the
\* orchestrator type when it is absent, else an enum field whose value is
\* outside its closed set; "" when there is none
StructuralError(V, x) ==
  IF FOrchestratorType \notin DOMAIN x THEN FOrchestratorType
  ELSE IF x[FOrchestratorType] = "" THEN FOrchestratorType
  ELSE LET bad == {f \in (EnumFields \cap DOMAIN x) \cap FieldsOf(V) : x[f] \notin ClosedSet(f)}
       IN IF bad = {} THEN "" ELSE CHOOSE f \in bad : TRUE

\* ToCanonical: the fields the document holds are copied, a field it does not
\* hold is left at its zero value, a field the version does not know is ignored
ToCanonical(V, x) ==
  [f \in Fields |->
     IF f \in DOMAIN x /\ f \in FieldsOf(V) THEN ToCanonicalField(f, x[f], V) ELSE ZeroValue(f)]

(***************************************************************************)
(* The documents converted.                                                *)
(***************************************************************************)
\* the enum fields of a KubernetesConfig
KubernetesEnums(networkPlugin, networkPolicy, proxyMode) ==
  [NetworkPlugin |-> networkPlugin, NetworkPolicy |-> networkPolicy, ProxyMode |-> proxyMode]

\* NetworkPolicy: "calico", NetworkPlugin: "azure-cni", ProxyMode: KubeProxyModeIPTables
DefaultContainerServiceEnums == KubernetesEnums("azure-cni", NetworkPolicyCalico, KubeProxyModeIPTables)

KubernetesEnumsSamples ==
  {KubernetesEnums("", "", ""),
   KubernetesEnums(NetworkPluginAzure, NetworkPolicyAzure, KubeProxyModeIPVS),
   DefaultContainerServiceEnums,
   KubernetesEnums(NetworkPluginKubenet, "unknown-policy", ""),
   KubernetesEnums("", "", "userspace")}

\* a canonical document: orchestrator type and version, master DNS prefix and
\* distro, agent pool distro, addon config, custom cloud profile, cluster ID,
\* enum fields of the KubernetesConfig
Canonical(t, v, prefix, md, ad, addon, cloud, id, k) ==
  [f \in Fields |->
     CASE f = FOrchestratorType -> t
       [] f = FNetworkPlugin -> k.NetworkPlugin
       [] f = FNetworkPolicy -> k.NetworkPolicy
       [] f = FProxyMode -> k.ProxyMode
       [] f = FOrchestratorVersion -> v
       [] f = FMasterDNSPrefix -> prefix
       [] f = FMasterDistro -> ApiDistro(md)
       [] f = FAgentDistro -> ApiDistro(ad)
       [] f = FAddonConfig -> addon
       [] f = FCustomCloudProfile -> cloud
       [] OTHER -> id]

\* canonical documents, among them documents that carry a deprecated distro,
\* documents without an orchestrator type (the ContainerService of
\* TestConvertCloudProfileToVLabs has no OrchestratorProfile) and documents
\* whose enum fields hold any string
CanonicalSamples ==
  {Canonical(t, v, "blueorange", d, e, a, c, id, KubernetesEnums("", "", "")) :
     t \in {Kubernetes, DCOS}, v \in {"", "1.11.6"},
     d \in DistroNames \cup {""}, e \in {"", AKS1804Deprecated, AKSUbuntu1804},
     a \in AddonConfigSamples, c \in CustomCloudProfileSamples, id \in {"", "24568952"}}
  \cup
  {Canonical(t, "1.11.6", "blueorange", Ubuntu, Ubuntu, <<>>, c, "", k) :
     t \in {"", Kubernetes}, c \in CustomCloudProfileSamples, k \in KubernetesEnumsSamples}

\* the document a client of version V sends when it sets nothing but the
\* orchestrator and the DNS prefix
RequestBase(V) ==
  [f \in FieldsOf(V) |->
     CASE f = FOrchestratorType -> Kubernetes
       [] f = FOrchestratorVersion -> "1.11.6"
       [] f = FMasterDNSPrefix -> "blueorange"
       [] f \in DistroFields -> VLabsDistro("")
       [] f = FAddonConfig -> <<>>
       [] f = FCustomCloudProfile -> Nil
       [] OTHER -> ""]

\* requests of version V: a vlabs request names its distros, deprecated ones
\* included, and its enum fields; a request of an older version may carry a
\* field its version does not know; a request may lack the orchestrator type
RequestSamples(V) ==
  (IF V = "vlabs"
   THEN {[RequestBase(V) EXCEPT ![FMasterDistro] = VLabsDistro(d), ![FAgentDistro] = VLabsDistro(e)] :
           d \in DistroNames \cup {""}, e \in {"", AKS1804Deprecated, AKSUbuntu1804}}
        \cup
        {[RequestBase(V) EXCEPT ![FNetworkPlugin] = k.NetworkPlugin,
                                ![FNetworkPolicy] = k.NetworkPolicy,
                                ![FProxyMode] = k.ProxyMode] : k \in KubernetesEnumsSamples}
   ELSE {RequestBase(V),
         [f \in FieldsOf(V) \cup {FMasterDistro} |->
            IF f = FMasterDistro THEN VLabsDistro(AKS1604Deprecated) ELSE RequestBase(V)[f]]})
  \cup
  {[RequestBase(V) EXCEPT ![FOrchestratorType] = ""],
   [f \in FieldsOf(V) \ {FOrchestratorType} |-> RequestBase(V)[f]]}

\* a conversion starts from a request of version ver or from a canonical document
ConvInit ==
  /\ ver \in Versions
  /\ \/ convPc = "request" /\ ext \in RequestSamples(ver) /\ cs = NoDoc
     \/ convPc = "canonical" /\ cs \in CanonicalSamples /\ ext = NoDoc
  /\ back = NoDoc
  /\ convErr = ""

\* external request -> canonical model; a structurally wrong request fails
\* with an error that names the field, and no canonical document is built
ConvertRequest ==
  /\ convPc = "request"
  /\ IF StructuralError(ver, ext) # ""
     THEN /\ convErr' = StructuralError(ver, ext)
          /\ convPc' = "failed"
          /\ UNCHANGED cs
     ELSE /\ cs' = ToCanonical(ver, ext)
          /\ convPc' = "canonical"
          /\ UNCHANGED convErr
  /\ UNCHANGED <<ver, ext, back, nonConvVars>>

\* canonical model -> external document of version ver:
\* v := ConvertContainerServiceToV...(cs), a call with no error result
ConvertContainerService ==
  /\ convPc = "canonical"
  /\ ext' = ToVersioned(ver, cs)
  /\ convPc' = "external"
  /\ UNCHANGED <<ver, cs, back, convErr, nonConvVars>>

\* the external document read back into a canonical document
ConvertBack ==
  /\ convPc = "external"
  /\ IF StructuralError(ver, ext) # ""
     THEN /\ convErr' = StructuralError(ver, ext)
          /\ convPc' = "failed"
          /\ UNCHANGED back
     ELSE /\ back' = ToCanonical(ver, ext)
          /\ convPc' = "back"
          /\ UNCHANGED convErr
  /\ UNCHANGED <<ver, cs, ext, nonConvVars>>

ConvNext ==
  \/ ConvertRequest
  \/ ConvertContainerService
  \/ ConvertBack

ConvSpecInit == ConvInit /\ ClusterIdle /\ FormatIdle /\ OvpIdle /\ StaticIPIdle /\ DeriveIdle /\ CloudIdle /\ TwinIdle /\ VhdIdle
ConvSpec == ConvSpecInit /\ [][ConvNext]_vars

(***************************************************************************)
(* ConvertOrchestratorVersionProfileToVLabs: an OrchestratorVersionProfile *)
(* (an orchestrator type and version, the default flag and the list of     *)
(* upgrade targets) converted to its vlabs form.  The function is called   *)
(* by TestConvertOrchestratorVersionProfileToVLabs; it is modelled as the  *)
(* specification describes the converters: a new vlabs profile is built,   *)
(* the targets are converted one by one in the order of the list.          *)
(***************************************************************************)
\* an OrchestratorProfile of package pkg
Orchestrator(pkg, orchestratorType, orchestratorVersion) ==
  [pkg |-> pkg, OrchestratorType |-> orchestratorType, OrchestratorVersion |-> orchestratorVersion]

\* the upgrade targets of the test, and a target of another orchestrator
UpgradeSamples ==
  {Orchestrator("api", Kubernetes, "1.10.13"), Orchestrator("api", Kubernetes, "1.11.6"),
   Orchestrator("api", DCOS, "1.11.0")}

\* the lists of at most n elements of S
SeqsUpTo(S, n) == UNION {[1..k -> S] : k \in 0..n}

OrchestratorVersionProfile(pkg, orchestrator, default, upgrades) ==
  [pkg |-> pkg,
   OrchestratorType |-> orchestrator.OrchestratorType,
   OrchestratorVersion |-> orchestrator.OrchestratorVersion,
   Default |-> default,
   Upgrades |-> upgrades]

OrchestratorVersionProfileSamples ==
  {OrchestratorVersionProfile("api", o, d, u) :
     o \in {Orchestrator("api", Kubernetes, "1.9.11"), Orchestrator("api", DCOS, "1.10.0")},
     d \in BOOLEAN, u \in SeqsUpTo(UpgradeSamples, MaxUpgrades)}

\* the upgrade targets converted one by one, in the order of the list
RECURSIVE ConvertUpgradesReversed(_)
ConvertUpgradesReversed(upgrades) ==
  IF upgrades = <<>> THEN <<>>
  ELSE Append(ConvertUpgradesReversed(Tail(upgrades)),
              Orchestrator("vlabs", Head(upgrades).OrchestratorType,
                           Head(upgrades).OrchestratorVersion))
ConvertUpgrades(upgrades) ==
  [i \in 1..Len(upgrades) |->
     Orchestrator("vlabs", upgrades[i].OrchestratorType, upgrades[i].OrchestratorVersion)]

ConvertOrchestratorVersionProfileToVLabs(api) ==
  [pkg |-> "vlabs",
   OrchestratorType |-> api.OrchestratorType,
   OrchestratorVersion |-> api.OrchestratorVersion,
   Default |-> api.Default,
   Upgrades |-> ConvertUpgrades(api.Upgrades)]

OvpInit == ovp \in OrchestratorVersionProfileSamples /\ vlabsOvp = NoDoc

\* vlabsOvp := ConvertOrchestratorVersionProfileToVLabs(ovp)
ConvertOvp ==
  /\ vlabsOvp = NoDoc
  /\ vlabsOvp' = ConvertOrchestratorVersionProfileToVLabs(ovp)
  /\ UNCHANGED <<ovp, nonOvpVars>>

OvpNext == ConvertOvp

OvpSpecInit == OvpInit /\ ClusterIdle /\ FormatIdle /\ ConvIdle /\ StaticIPIdle /\ DeriveIdle /\ CloudIdle /\ TwinIdle /\ VhdIdle
OvpSpec == OvpSpecInit /\ [][OvpNext]_vars

(***************************************************************************)
(* MasterProfile.GetFirstConsecutiveStaticIPAddress.  The subnet is text,  *)
(* a sequence of characters; net.ParseCIDR is modelled for the dotted      *)
(* decimal IPv4 form "a.b.c.d/n": the text is cut at the first '/', the    *)
(* address must be four decimal numbers of at most three digits and at     *)
(* most 255, the prefix length decimal digits and at most 32.  The parsed  *)
(* network is the address masked to the prefix, four bytes long.           *)
(***************************************************************************)
DefaultFirstConsecutiveKubernetesStaticIPVMSS == <<"1", "0", ".", "2", "4", "0", ".", "0", ".", "4">>
DefaultFirstConsecutiveKubernetesStaticIP == <<"1", "0", ".", "2", "4", "0", ".", "2", "5", "5", ".", "5">>
DefaultKubernetesFirstConsecutiveStaticIPOffset == 5
DefaultKubernetesFirstConsecutiveStaticIPOffsetVMSS == 4

\* the index of the first ch in s; 0 when there is none
RECURSIVE IndexByte(_, _)
IndexByte(s, ch) ==
  IF s = <<>> THEN 0
  ELSE IF Head(s) = ch THEN 1
  ELSE IF IndexByte(Tail(s), ch) = 0 THEN 0 ELSE 1 + IndexByte(Tail(s), ch)

\* s cut at every ch
RECURSIVE Split(_, _)
Split(s, ch) ==
  IF IndexByte(s, ch) = 0 THEN <<s>>
  ELSE <<SubSeq(s, 1, IndexByte(s, ch) - 1)>> \o Split(SubSeq(s, IndexByte(s, ch) + 1, Len(s)), ch)

DigitValue(c) ==
  CASE c = "0" -> 0 [] c = "1" -> 1 [] c = "2" -> 2 [] c = "3" -> 3 [] c = "4" -> 4
    [] c = "5" -> 5 [] c = "6" -> 6 [] c = "7" -> 7 [] c = "8" -> 8 [] OTHER -> 9

\* the number the decimal digits s write
RECURSIVE Dtoi(_)
Dtoi(s) == IF s = <<>> THEN 0 ELSE 10 * Dtoi(SubSeq(s, 1, Len(s) - 1)) + DigitValue(s[Len(s)])

\* s is one to three decimal digits
IsDecimal(s) == Len(s) \in 1..3 /\ \A i \in 1..Len(s) : IsDigitChar(s[i])

\* a field of a dotted decimal address: a number of at most 255 written
\* without a leading zero
IsOctetText(s) == IsDecimal(s) /\ Dtoi(s) <= 255 /\ (Len(s) > 1 => s[1] # "0")

ErrCIDR == [err |-> TRUE, ip |-> <<>>, ones |-> 0, bits |-> 0]

\* 2^n
RECURSIVE Pow2(_)
Pow2(n) == IF n = 0 THEN 1 ELSE 2 * Pow2(n - 1)

\* the bits of octet i (counted from 0) that belong to a prefix of `ones` bits
PrefixBits(ones, i) ==
  IF ones >= 8 * (i + 1) THEN 8 ELSE IF ones <= 8 * i THEN 0 ELSE ones - 8 * i

\* byte b with all but its n leading bits cleared
MaskByte(b, n) == (b \div Pow2(8 - n)) * Pow2(8 - n)

\* a | b on bytes
RECURSIVE BitOr(_, _, _)
BitOr(a, b, n) ==
  IF n = 0 THEN 0
  ELSE (IF a % 2 = 1 \/ b % 2 = 1 THEN 1 ELSE 0) + 2 * BitOr(a \div 2, b \div 2, n - 1)

\* _, subnet, err := net.ParseCIDR(subnetStr); the bytes of subnet.IP counted from 1
ParseCIDR(s) ==
  IF IndexByte(s, "/") = 0 THEN ErrCIDR
  ELSE LET addr == Split(SubSeq(s, 1, IndexByte(s, "/") - 1), ".")
           mask == SubSeq(s, IndexByte(s, "/") + 1, Len(s))
       IN IF Len(addr) # 4 \/ (\E i \in 1..Len(addr) : ~IsOctetText(addr[i])) \/ ~IsDecimal(mask)
          THEN ErrCIDR
          ELSE IF Dtoi(mask) > 32 THEN ErrCIDR
          ELSE [err |-> FALSE,
                ip |-> [i \in 1..4 |-> MaskByte(Dtoi(addr[i]), PrefixBits(Dtoi(mask), i - 1))],
                ones |-> Dtoi(mask),
                bits |-> 32]

\* subnet.IP.String() of a four-byte address
IPString(ip) ==
  Digits(ip[1]) \o <<".">> \o Digits(ip[2]) \o <<".">> \o Digits(ip[3]) \o <<".">> \o Digits(ip[4])

\* a run-time panic: index out of range
Panic == <<"panic">>

\* (1 << byte(8 - ones%8)) - 1, computed in the type byte of subnet.IP[firstOctet]
HostBitsOfFirstOctet(ones) == ((Pow2(8 - (ones % 8)) % 256) - 1) % 256

\* the non-VMSS branch: the bytes of subnet.IP after the assignments, with
\* firstOctet and lastOctet counted from 0 as in the code
FillHostOctets(ip, ones, firstOctet, lastOctet) ==
  [i \in 1..Len(ip) |->
     IF i - 1 = lastOctet THEN DefaultKubernetesFirstConsecutiveStaticIPOffset
     ELSE IF i - 1 > firstOctet /\ i - 1 < lastOctet THEN 255
     ELSE IF i - 1 = firstOctet THEN BitOr(ip[i], HostBitsOfFirstOctet(ones), 8)
     ELSE ip[i]]

\* m.GetFirstConsecutiveStaticIPAddress(subnetCIDR), isVMSS being m.IsVirtualMachineScaleSets()
GetFirstConsecutiveStaticIPAddress(isVMSS, subnetStr) ==
  LET subnet == ParseCIDR(subnetStr)
      firstOctet == subnet.ones \div 8
      lastOctet == (subnet.bits \div 8) - 1
  IN IF subnet.err THEN DefaultFirstConsecutiveKubernetesStaticIP
     ELSE IF isVMSS
     THEN IPString([subnet.ip EXCEPT ![lastOctet + 1] = DefaultKubernetesFirstConsecutiveStaticIPOffsetVMSS])
     ELSE IF firstOctet >= Len(subnet.ip) THEN Panic
     ELSE IPString(FillHostOctets(subnet.ip, subnet.ones, firstOctet, lastOctet))

\* the subnets the function is given: addresses and prefix lengths, well-formed or not
AddressTexts ==
  {<<"1", "0", ".", "2", "4", "0", ".", "0", ".", "0">>,
   <<"1", "0", ".", "2", "4", "0", ".", "1", "6", ".", "0">>,
   <<"1", "9", "2", ".", "1", "6", "8", ".", "1", ".", "7", "7">>,
   <<"0", ".", "0", ".", "0", ".", "0">>,
   <<"2", "5", "5", ".", "2", "5", "5", ".", "2", "5", "5", ".", "2", "5", "5">>,
   <<"1", "0", ".", "0", ".", "0", ".", "1">>,
   <<"1", "0", ".", "2", "4", "0", ".", "0">>,
   <<"2", "5", "6", ".", "0", ".", "0", ".", "0">>,
   <<"1", "0", ".", "2", "4", "0", ".", "0", ".", "0", ".", "0">>,
   <<"a", ".", "b", ".", "c", ".", "d">>,
   <<"1", "0", ".", ".", "0", ".", "0">>,
   <<>>}

PrefixLengthTexts ==
  {<<"0">>,
   <<"7">>,
   <<"8">>,
   <<"1", "2">>,
   <<"1", "6">>,
   <<"2", "0">>,
   <<"2", "4">>,
   <<"2", "5">>,
   <<"3", "1">>,
   <<"3", "2">>,
   <<"3", "3">>,
   <<>>,
   <<"1", "x">>,
   <<"-", "1">>,
   <<"1", "6", "/", "1">>}

\* texts without a '/'
PlainTexts ==
  {<<"n", "o", "t", "-", "a", "-", "c", "i", "d", "r">>,
   <<"1", "0", ".", "2", "4", "0", ".", "0", ".", "0">>,
   <<>>}

SubnetSamples == {a \o <<"/">> \o n : a \in AddressTexts, n \in PrefixLengthTexts} \cup PlainTexts

NotCalled == <<>>

StaticIPInit ==
  /\ subnetCIDR \in SubnetSamples
  /\ masterAvailabilityProfile \in {AvailabilitySet, VirtualMachineScaleSets}
  /\ staticIP = NotCalled

\* staticIP := m.GetFirstConsecutiveStaticIPAddress(subnetCIDR)
CallGetFirstConsecutiveStaticIPAddress ==
  /\ staticIP = NotCalled
  /\ staticIP' = GetFirstConsecutiveStaticIPAddress(
                   masterAvailabilityProfile = VirtualMachineScaleSets, subnetCIDR)
  /\ UNCHANGED <<subnetCIDR, masterAvailabilityProfile, nonStaticIPVars>>

StaticIPNext == CallGetFirstConsecutiveStaticIPAddress

StaticIPSpecInit == StaticIPInit /\ ClusterIdle /\ FormatIdle /\ ConvIdle /\ OvpIdle /\ DeriveIdle /\ CloudIdle /\ TwinIdle /\ VhdIdle
StaticIPSpec == StaticIPSpecInit /\ [][StaticIPNext]_vars

(***************************************************************************)
(* The derived-property functions called one after another on one          *)
(* Properties by a single goroutine, lines 1294-1600: the predicates that  *)
(* scan the agent pools, the naming functions and GetClusterMetadata.  A   *)
(* call runs to its end, the GetClusterID it reaches included.             *)
(***************************************************************************)
ManagedDisks == "ManagedDisks"
StorageAccount == "StorageAccount"

DefaultSubnetNameResourceSegmentIndex == 10
DefaultVnetResourceGroupSegmentIndex == 4
DefaultVnetNameResourceSegmentIndex == 8

\* strings.Split(id, "/")[i]: i counts from 0
Segment(id, i) == id[i + 1]

HasCoreOS(q) ==
  \E i \in 1..Len(q.AgentPoolProfiles) : q.AgentPoolProfiles[i].Distro = CoreOS

\* the first pool alone decides
HasWindowsFirstPool(q) ==
  Len(q.AgentPoolProfiles) > 0 /\ q.AgentPoolProfiles[1].OSType = Windows

HasWindows(q) ==
  \E i \in 1..Len(q.AgentPoolProfiles) : q.AgentPoolProfiles[i].OSType = Windows

PrivateJumpboxProvision(k) ==
  /\ k # Nil
  /\ k.PrivateCluster # Nil
  /\ k.PrivateCluster.Enabled.v
  /\ k.PrivateCluster.JumpboxProfile # Nil

\* the master and the pools have no managed disks, and the jumpbox is looked at
HasManagedDisksReachesJumpbox(q) ==
  /\ ~(q.MasterProfile # Nil /\ q.MasterProfile.StorageProfile = ManagedDisks)
  /\ \A i \in 1..Len(q.AgentPoolProfiles) :
       q.AgentPoolProfiles[i].StorageProfile # ManagedDisks
  /\ q.OrchestratorProfile # Nil
  /\ q.OrchestratorProfile.KubernetesConfig # Nil

HasManagedDisks(q) ==
  \/ q.MasterProfile # Nil /\ q.MasterProfile.StorageProfile = ManagedDisks
  \/ \E i \in 1..Len(q.AgentPoolProfiles) :
       q.AgentPoolProfiles[i].StorageProfile = ManagedDisks
  \/ /\ q.OrchestratorProfile # Nil
     /\ q.OrchestratorProfile.KubernetesConfig # Nil
     /\ PrivateJumpboxProvision(q.OrchestratorProfile.KubernetesConfig)
     /\ q.OrchestratorProfile.KubernetesConfig.PrivateCluster.JumpboxProfile.StorageProfile
          = ManagedDisks

\* the master and the pools have no storage-account disks, and the jumpbox is
\* looked at
HasStorageAccountDisksReachesJumpbox(q) ==
  /\ ~(q.MasterProfile # Nil /\ q.MasterProfile.StorageProfile = StorageAccount)
  /\ \A i \in 1..Len(q.AgentPoolProfiles) :
       q.AgentPoolProfiles[i].StorageProfile # StorageAccount
  /\ q.OrchestratorProfile # Nil
  /\ q.OrchestratorProfile.KubernetesConfig # Nil

HasStorageAccountDisks(q) ==
  \/ q.MasterProfile # Nil /\ q.MasterProfile.StorageProfile = StorageAccount
  \/ \E i \in 1..Len(q.AgentPoolProfiles) :
       q.AgentPoolProfiles[i].StorageProfile = StorageAccount
  \/ /\ q.OrchestratorProfile # Nil
     /\ q.OrchestratorProfile.KubernetesConfig # Nil
     /\ PrivateJumpboxProvision(q.OrchestratorProfile.KubernetesConfig)
     /\ q.OrchestratorProfile.KubernetesConfig.PrivateCluster.JumpboxProfile.StorageProfile
          = StorageAccount

AnyAgentUsesVirtualMachineScaleSets(q) ==
  \E i \in 1..Len(q.AgentPoolProfiles) :
    AgentPoolProfile_IsVirtualMachineScaleSets(q.AgentPoolProfiles[i])

GetRouteTableName(q, id) == GetResourcePrefix(q, id) \o <<"routetable">>

GetNSGName(q, id) == GetResourcePrefix(q, id) \o <<"nsg">>

GetPrimaryScaleSetName(q, id) ==
  IF Len(q.AgentPoolProfiles) > 0
  THEN IF q.AgentPoolProfiles[1].AvailabilityProfile = VirtualMachineScaleSets
       THEN GetAgentVMPrefix(q, 0, id)
       ELSE <<>>
  ELSE <<>>

GetVNetResourceGroupName(q) ==
  IF IsHostedMasterProfile(q) /\ AreAgentProfilesCustomVNET(q)
  THEN <<Segment(q.AgentPoolProfiles[1].VnetSubnetID, DefaultVnetResourceGroupSegmentIndex)>>
  ELSE IF ~IsHostedMasterProfile(q) /\ MasterProfile_IsCustomVNET(q.MasterProfile)
       THEN <<Segment(q.MasterProfile.VnetSubnetID, DefaultVnetResourceGroupSegmentIndex)>>
       ELSE <<>>

\* the segment that names the virtual network, not the subnet
GetSubnetNameVnetSegment(q) ==
  IF IsHostedMasterProfile(q)
  THEN IF AreAgentProfilesCustomVNET(q)
       THEN <<Segment(q.AgentPoolProfiles[1].VnetSubnetID, DefaultVnetNameResourceSegmentIndex)>>
       ELSE <<K8sOrchestratorName(q), "-subnet">>
  ELSE IF MasterProfile_IsCustomVNET(q.MasterProfile)
       THEN <<Segment(q.MasterProfile.VnetSubnetID, DefaultVnetNameResourceSegmentIndex)>>
       ELSE <<K8sOrchestratorName(q), "-subnet">>

GetSubnetName(q) ==
  IF IsHostedMasterProfile(q)
  THEN IF AreAgentProfilesCustomVNET(q)
       THEN <<Segment(q.AgentPoolProfiles[1].VnetSubnetID, DefaultSubnetNameResourceSegmentIndex)>>
       ELSE <<K8sOrchestratorName(q), "-subnet">>
  ELSE IF MasterProfile_IsCustomVNET(q.MasterProfile)
       THEN <<Segment(q.MasterProfile.VnetSubnetID, DefaultSubnetNameResourceSegmentIndex)>>
       ELSE <<K8sOrchestratorName(q), "-subnet">>

GetClusterMetadata(q, id) ==
  [SubnetName |-> GetSubnetName(q),
   VNetResourceGroupName |-> GetVNetResourceGroupName(q),
   VirtualNetworkName |-> GetVirtualNetworkName(q, id),
   SecurityGroupName |-> GetNSGName(q, id),
   RouteTableName |-> GetRouteTableName(q, id),
   PrimaryAvailabilitySetName |-> GetPrimaryAvailabilitySetName(q, id),
   PrimaryScaleSetName |-> GetPrimaryScaleSetName(q, id),
   ResourcePrefix |-> GetResourcePrefix(q, id)]

DerivedOps ==
  {"HasCoreOS", "HasWindows", "HasManagedDisks", "HasStorageAccountDisks",
   "AnyAgentUsesVirtualMachineScaleSets", "GetClusterID", "GetAgentVMPrefix", "GetMasterVMPrefix", "GetResourcePrefix",
   "GetRouteTableName", "GetNSGName", "GetPrimaryAvailabilitySetName",
   "GetPrimaryScaleSetName", "GetVNetResourceGroupName", "GetVirtualNetworkName",
   "GetSubnetName", "GetClusterMetadata"}

\* p.OrchestratorProfile.IsKubernetes() reads through a nil pointer
K8sOrchestratorNamePanics(q) == q.OrchestratorProfile = Nil

\* the branch of the virtual-network functions that reads a custom subnet ID
\* indexes a pool that is not there, a segment that is not there, or reads
\* p.MasterProfile through a nil pointer; i is the segment index
CustomVNETPanics(q, i) ==
  IF IsHostedMasterProfile(q) /\ AreAgentProfilesCustomVNET(q)
  THEN \/ Len(q.AgentPoolProfiles) = 0
       \/ Len(q.AgentPoolProfiles[1].VnetSubnetID) < i + 1
  ELSE IF ~IsHostedMasterProfile(q)
       THEN \/ q.MasterProfile = Nil
            \/ /\ MasterProfile_IsCustomVNET(q.MasterProfile)
               /\ Len(q.MasterProfile.VnetSubnetID) < i + 1
       ELSE FALSE

\* the virtual-network functions take the branch that builds the default name
DefaultVNETPath(q) ==
  /\ ~(IsHostedMasterProfile(q) /\ AreAgentProfilesCustomVNET(q))
  /\ ~(~IsHostedMasterProfile(q) /\ MasterProfile_IsCustomVNET(q.MasterProfile))

GetSubnetNamePanics(q) ==
  \/ CustomVNETPanics(q, DefaultSubnetNameResourceSegmentIndex)
  \/ DefaultVNETPath(q) /\ K8sOrchestratorNamePanics(q)

GetVirtualNetworkNamePanics(q) ==
  \/ CustomVNETPanics(q, DefaultVnetNameResourceSegmentIndex)
  \/ DefaultVNETPath(q) /\ K8sOrchestratorNamePanics(q)

\* nameSuffix[:4] of a cluster ID shorter than four bytes
Prefix4Panics(q, index, id) ==
  /\ index # -1
  /\ AgentPoolProfile_IsWindows(q.AgentPoolProfiles[index + 1])
  /\ q.AgentPoolProfiles[index + 1].WindowsNameVersion # "v2"
  /\ Len(id) < 4

GetAgentVMPrefixPanics(q, index, id) ==
  \/ index # -1 /\ K8sOrchestratorNamePanics(q)
  \/ Prefix4Panics(q, index, id)

GetPrimaryScaleSetNamePanics(q, id) ==
  /\ Len(q.AgentPoolProfiles) > 0
  /\ q.AgentPoolProfiles[1].AvailabilityProfile = VirtualMachineScaleSets
  /\ GetAgentVMPrefixPanics(q, 0, id)

\* the call panics; id is what its GetClusterID returns
DerivePanics(q, o, index, id) ==
  CASE o = "HasManagedDisks" ->
         /\ HasManagedDisksReachesJumpbox(q)
         /\ q.OrchestratorProfile.KubernetesConfig.PrivateCluster # Nil
         /\ q.OrchestratorProfile.KubernetesConfig.PrivateCluster.Enabled = Nil
    [] o = "HasStorageAccountDisks" ->
         /\ HasStorageAccountDisksReachesJumpbox(q)
         /\ q.OrchestratorProfile.KubernetesConfig.PrivateCluster # Nil
         /\ q.OrchestratorProfile.KubernetesConfig.PrivateCluster.Enabled = Nil
    [] o = "GetAgentVMPrefix" -> GetAgentVMPrefixPanics(q, index, id)
    [] o \in {"GetMasterVMPrefix", "GetResourcePrefix", "GetRouteTableName", "GetNSGName"} ->
         K8sOrchestratorNamePanics(q)
    [] o = "GetPrimaryScaleSetName" -> GetPrimaryScaleSetNamePanics(q, id)
    [] o = "GetVNetResourceGroupName" ->
         CustomVNETPanics(q, DefaultVnetResourceGroupSegmentIndex)
    [] o = "GetVirtualNetworkName" -> GetVirtualNetworkNamePanics(q)
    [] o = "GetSubnetName" -> GetSubnetNamePanics(q)
    [] o = "GetClusterMetadata" ->
         \/ GetSubnetNamePanics(q)
         \/ K8sOrchestratorNamePanics(q)
         \/ GetPrimaryScaleSetNamePanics(q, id)
    [] OTHER -> FALSE

\* the call reaches p.GetClusterID() before it returns or panics
DeriveCallsGetClusterID(q, o, index) ==
  CASE o \in {"GetClusterID", "GetAgentVMPrefix"} -> TRUE
    [] o \in {"GetMasterVMPrefix", "GetResourcePrefix", "GetRouteTableName", "GetNSGName"} ->
         ~K8sOrchestratorNamePanics(q)
    [] o = "GetPrimaryAvailabilitySetName" ->
         /\ Len(q.AgentPoolProfiles) > 0
         /\ q.AgentPoolProfiles[1].AvailabilityProfile = AvailabilitySet
    [] o = "GetPrimaryScaleSetName" ->
         /\ Len(q.AgentPoolProfiles) > 0
         /\ q.AgentPoolProfiles[1].AvailabilityProfile = VirtualMachineScaleSets
    [] o = "GetVirtualNetworkName" ->
         ~GetVirtualNetworkNamePanics(q) /\ DefaultVNETPath(q)
    [] o = "GetClusterMetadata" ->
         ~GetSubnetNamePanics(q) /\ ~K8sOrchestratorNamePanics(q)
    [] OTHER -> FALSE

\* GetClusterID that writes p.ClusterID whatever it holds
WithClusterIDOverwritten(q) == [q EXCEPT !.ClusterID = StringOf(ClusterIDFor(q))]

\* the Properties after a GetClusterID that no other goroutine interleaves with
WithClusterID(q) ==
  IF ClusterIDIsEmpty(q) THEN [q EXCEPT !.ClusterID = StringOf(ClusterIDFor(q))] ELSE q

\* what the call returns when it does not panic
DeriveValue(q, o, index, id) ==
  CASE o = "HasCoreOS" -> HasCoreOS(q)
    [] o = "HasWindows" -> HasWindows(q)
    [] o = "HasManagedDisks" -> HasManagedDisks(q)
    [] o = "HasStorageAccountDisks" -> HasStorageAccountDisks(q)
    [] o = "AnyAgentUsesVirtualMachineScaleSets" -> AnyAgentUsesVirtualMachineScaleSets(q)
    [] o = "GetClusterID" -> id
    [] o = "GetAgentVMPrefix" -> GetAgentVMPrefix(q, index, id)
    [] o = "GetMasterVMPrefix" -> GetMasterVMPrefix(q, id)
    [] o = "GetResourcePrefix" -> GetResourcePrefix(q, id)
    [] o = "GetRouteTableName" -> GetRouteTableName(q, id)
    [] o = "GetNSGName" -> GetNSGName(q, id)
    [] o = "GetPrimaryAvailabilitySetName" -> GetPrimaryAvailabilitySetName(q, id)
    [] o = "GetPrimaryScaleSetName" -> GetPrimaryScaleSetName(q, id)
    [] o = "GetVNetResourceGroupName" -> GetVNetResourceGroupName(q)
    [] o = "GetVirtualNetworkName" -> GetVirtualNetworkName(q, id)
    [] o = "GetSubnetName" -> GetSubnetName(q)
    [] o = "GetClusterMetadata" -> GetClusterMetadata(q, id)

Returns(v) == [value |-> v]
Panicked == [panic |-> TRUE]

(***************************************************************************)
(* The Properties the derived-property functions are called on.            *)
(***************************************************************************)
AgentSubnetID == <<"", "subscriptions", "sub", "resourceGroups", "agentrg", "providers",
                   "Microsoft.Network", "virtualNetworks", "agentvnet", "subnets", "agentsubnet">>
OtherSubnetID == <<"", "subscriptions", "sub", "resourceGroups", "otherrg", "providers",
                   "Microsoft.Network", "virtualNetworks", "othervnet", "subnets", "othersubnet">>
\* a VnetSubnetID that is not a subnet resource ID: "vnet/subnet"
ShortSubnetID == <<"vnet", "subnet">>

AgentPool(name, os, avail, wnv, subnetID, distro, storage) ==
  [Name |-> name, OSType |-> os, AvailabilityProfile |-> avail, WindowsNameVersion |-> wnv,
   VnetSubnetID |-> subnetID, Distro |-> distro, StorageProfile |-> storage]

LinuxAgent == AgentPool("agent0", Linux, AvailabilitySet, "", EmptySubnetID, Ubuntu, StorageAccount)
WindowsAgent == AgentPool("agentw", Windows, AvailabilitySet, "", EmptySubnetID, "", StorageAccount)
WindowsV2Agent == AgentPool("agentw", Windows, AvailabilitySet, "v2", EmptySubnetID, "", ManagedDisks)
CoreOSAgent == AgentPool("agentc", Linux, AvailabilitySet, "", EmptySubnetID, CoreOS, ManagedDisks)
ScaleSetAgent ==
  AgentPool("agent0", Linux, VirtualMachineScaleSets, "", AgentSubnetID, Ubuntu, StorageAccount)
CustomVNETAgent == AgentPool("agent1", Linux, AvailabilitySet, "", OtherSubnetID, Ubuntu, StorageAccount)
ShortIDAgent == AgentPool("agent0", Linux, AvailabilitySet, "", ShortSubnetID, Ubuntu, StorageAccount)

\* the agent-pool lists, each with whether the slice is nil
AgentPoolsSamples ==
  {[nil |-> TRUE, pools |-> <<>>],
   [nil |-> FALSE, pools |-> <<>>],
   [nil |-> FALSE, pools |-> <<LinuxAgent>>],
   [nil |-> FALSE, pools |-> <<WindowsAgent>>],
   [nil |-> FALSE, pools |-> <<LinuxAgent, WindowsAgent>>],
   [nil |-> FALSE, pools |-> <<WindowsV2Agent>>],
   [nil |-> FALSE, pools |-> <<CoreOSAgent, LinuxAgent>>],
   [nil |-> FALSE, pools |-> <<ScaleSetAgent>>],
   [nil |-> FALSE, pools |-> <<ScaleSetAgent, CustomVNETAgent>>],
   [nil |-> FALSE, pools |-> <<CustomVNETAgent, ScaleSetAgent>>],
   [nil |-> FALSE, pools |-> <<CustomVNETAgent, LinuxAgent>>],
   [nil |-> FALSE, pools |-> <<ShortIDAgent>>]}

MasterWith(prefix, subnetID, storage) ==
  [DNSPrefix |-> prefix, VnetSubnetID |-> subnetID, StorageProfile |-> storage]

MasterSamples ==
  {Nil,
   MasterWith("master", EmptySubnetID, StorageAccount),
   MasterWith("master", CustomSubnetID, ManagedDisks),
   MasterWith("master", ShortSubnetID, StorageAccount)}

HostedMasterSamples == {Nil, HostedMaster("hosted")}

PrivateCluster(enabled, jumpbox) == [Enabled |-> enabled, JumpboxProfile |-> jumpbox]

OrchestratorProfileOf(t, k, d) ==
  [OrchestratorType |-> t, KubernetesConfig |-> k, DcosConfig |-> d]

\* the DcosConfig of getDefaultContainerService
SampleDcosConfig == [DcosBootstrapURL |-> "SampleDcosBootstrapURL", Registry |-> "SampleRegistry"]

OrchestratorSamples ==
  {Nil,
   OrchestratorProfileOf(Kubernetes, Nil, Nil),
   OrchestratorProfileOf(DCOS, Nil, Nil),
   OrchestratorProfileOf(DCOS, Nil, SampleDcosConfig),
   OrchestratorProfileOf(Kubernetes, [PrivateCluster |-> Nil], Nil),
   OrchestratorProfileOf(Kubernetes, [PrivateCluster |-> Nil], SampleDcosConfig),
   OrchestratorProfileOf(DCOS, [PrivateCluster |->
     PrivateCluster([v |-> TRUE], [StorageProfile |-> ManagedDisks])], Nil),
   OrchestratorProfileOf(Kubernetes, [PrivateCluster |->
     PrivateCluster([v |-> TRUE], [StorageProfile |-> ManagedDisks])], Nil),
   OrchestratorProfileOf(Kubernetes, [PrivateCluster |->
     PrivateCluster([v |-> FALSE], [StorageProfile |-> ManagedDisks])], Nil),
   OrchestratorProfileOf(Kubernetes, [PrivateCluster |->
     PrivateCluster(Nil, [StorageProfile |-> ManagedDisks])], Nil)}

DeriveSamples ==
  {Props(id, o, m, h, a.pools, a.nil) :
     id \in {EmptyString, StringOf(LoadedClusterID)}, o \in OrchestratorSamples,
     m \in MasterSamples, h \in HostedMasterSamples, a \in AgentPoolsSamples}

DeriveInit ==
  /\ props \in DeriveSamples
  /\ derivedCall = NoDoc
  /\ propsAtCall = NoDoc
  /\ derived = NoDoc

\* derived := props.o(index): the call runs to its return or to its panic
DeriveCall(o, index) ==
  LET id == StrVal(WithClusterID(props).ClusterID) IN
  /\ derivedCall' = [op |-> o, index |-> index]
  /\ propsAtCall' = props
  /\ props' = IF DeriveCallsGetClusterID(props, o, index) THEN WithClusterID(props) ELSE props
  /\ derived' = IF DerivePanics(props, o, index, id) THEN Panicked
                ELSE Returns(DeriveValue(props, o, index, id))
  /\ UNCHANGED nonDeriveVars

CallHasCoreOS == DeriveCall("HasCoreOS", -1)
CallHasWindows == DeriveCall("HasWindows", -1)
CallHasManagedDisks == DeriveCall("HasManagedDisks", -1)
CallHasStorageAccountDisks == DeriveCall("HasStorageAccountDisks", -1)
CallAnyAgentUsesVirtualMachineScaleSets == DeriveCall("AnyAgentUsesVirtualMachineScaleSets", -1)
CallGetClusterID == DeriveCall("GetClusterID", -1)
CallGetAgentVMPrefix == \E index \in IndexArgs(props) : DeriveCall("GetAgentVMPrefix", index)
CallGetMasterVMPrefix == DeriveCall("GetMasterVMPrefix", -1)
CallGetResourcePrefix == DeriveCall("GetResourcePrefix", -1)
CallGetRouteTableName == DeriveCall("GetRouteTableName", -1)
CallGetNSGName == DeriveCall("GetNSGName", -1)
CallGetPrimaryAvailabilitySetName == DeriveCall("GetPrimaryAvailabilitySetName", -1)
CallGetPrimaryScaleSetName == DeriveCall("GetPrimaryScaleSetName", -1)
CallGetVNetResourceGroupName == DeriveCall("GetVNetResourceGroupName", -1)
CallGetVirtualNetworkName == DeriveCall("GetVirtualNetworkName", -1)
CallGetSubnetName == DeriveCall("GetSubnetName", -1)
CallGetClusterMetadata == DeriveCall("GetClusterMetadata", -1)

DeriveNext ==
  \/ CallHasCoreOS
  \/ CallHasWindows
  \/ CallHasManagedDisks
  \/ CallHasStorageAccountDisks
  \/ CallAnyAgentUsesVirtualMachineScaleSets
  \/ CallGetClusterID
  \/ CallGetAgentVMPrefix
  \/ CallGetMasterVMPrefix
  \/ CallGetResourcePrefix
  \/ CallGetRouteTableName
  \/ CallGetNSGName
  \/ CallGetPrimaryAvailabilitySetName
  \/ CallGetPrimaryScaleSetName
  \/ CallGetVNetResourceGroupName
  \/ CallGetVirtualNetworkName
  \/ CallGetSubnetName
  \/ CallGetClusterMetadata

DeriveSpecInit ==
  DeriveInit /\ ClusterIdle /\ FormatIdle /\ ConvIdle /\ OvpIdle /\ StaticIPIdle /\ CloudIdle /\ TwinIdle /\ VhdIdle
DeriveSpec == DeriveSpecInit /\ [][DeriveNext]_vars

(***************************************************************************)
(* GetCloudSpecConfig, lines 2458-2461, with GetCustomCloudName, lines     *)
(* 2316-2322.  helpers.GetTargetEnv and the table AzureCloudSpecEnvMap are *)
(* declared outside these lines: the table is the static registry of the   *)
(* five cloud names, which nothing writes after start-up.                  *)
(***************************************************************************)
AzurePublicCloud == "AzurePublicCloud"
AzureChinaCloud == "AzureChinaCloud"
AzureGermanCloud == "AzureGermanCloud"
AzureUSGovernmentCloud == "AzureUSGovernmentCloud"
AzureStackCloud == "AzureStackCloud"

RegistryKeys ==
  {AzurePublicCloud, AzureChinaCloud, AzureGermanCloud, AzureUSGovernmentCloud,
   AzureStackCloud}

\* the entry of the static table for one cloud: constants of that cloud
StaticSpecConfig(name) ==
  [pkg |-> "api",
   CloudName |-> name,
   DockerSpecConfig |-> NamedStruct(DockerSpecConfigFields, name),
   KubernetesSpecConfig |-> NamedStruct(KubernetesSpecConfigFields, name),
   DCOSSpecConfig |-> NamedStruct(DCOSSpecConfigFields, name),
   EndpointConfig |-> NamedStruct(AzureEndpointConfigFields, name),
   OSImageConfig |-> [d \in {ApiDistro(AKSUbuntu1604)} |-> AKSUbuntu1604OSImageConfig]]

\* AzureEnvironmentSpecConfig{}: what a map lookup yields for a missing key
ZeroSpecConfig ==
  [pkg |-> "api",
   CloudName |-> "",
   DockerSpecConfig |-> [x \in DockerSpecConfigFields |-> ""],
   KubernetesSpecConfig |-> [x \in KubernetesSpecConfigFields |-> ""],
   DCOSSpecConfig |-> [x \in DCOSSpecConfigFields |-> ""],
   EndpointConfig |-> [x \in AzureEndpointConfigFields |-> ""],
   OSImageConfig |-> <<>>]

\* AzureCloudSpecEnvMap[key]
AzureCloudSpecEnvMap(key) ==
  IF key \in RegistryKeys THEN StaticSpecConfig(key) ELSE ZeroSpecConfig

\* strings.EqualFold(name, "AzureStackCloud"), over the names of the model
EqualFoldAzureStackCloud(name) == name \in {"AzureStackCloud", "azurestackcloud"}

\* the public cloud a location belongs to
GetCloudTargetEnv(location) ==
  CASE location \in {"chinaeast", "chinanorth"} -> AzureChinaCloud
    [] location \in {"germanycentral", "germanynortheast"} -> AzureGermanCloud
    [] location \in {"usgovvirginia", "usdodeast"} -> AzureUSGovernmentCloud
    [] OTHER -> AzurePublicCloud

GetTargetEnv(location, customCloudName) ==
  IF customCloudName # "" /\ EqualFoldAzureStackCloud(customCloudName)
  THEN AzureStackCloud
  ELSE GetCloudTargetEnv(location)

IsAzureStackCloud(q) == q.CustomCloudProfile # Nil

\* p.CustomCloudProfile.Environment.Name reads through a nil Environment
GetCustomCloudNamePanics(q) == IsAzureStackCloud(q) /\ q.CustomCloudProfile.Environment = Nil

GetCustomCloudName(q) ==
  IF IsAzureStackCloud(q) THEN q.CustomCloudProfile.Environment.Name ELSE ""

GetCloudSpecConfig(c) ==
  IF GetCustomCloudNamePanics(c.Properties) THEN Panicked
  ELSE Returns(AzureCloudSpecEnvMap(GetTargetEnv(c.Location, GetCustomCloudName(c.Properties))))

\* the method returns the field as it is, empty or not
GetCustomCloudAuthenticationMethod(q) ==
  IF IsAzureStackCloud(q) THEN q.CustomCloudProfile.AuthenticationMethod
  ELSE ClientSecretAuthMethod

GetCustomCloudIdentitySystem(q) ==
  IF IsAzureStackCloud(q) THEN q.CustomCloudProfile.IdentitySystem
  ELSE AzureADIdentitySystem

\* fmt.Sprintf("%s.%s."+FQDNFormat, fqdnPrefix, location), as its parts
FormatFQDN(fqdnPrefix, location, targetEnv) ==
  <<fqdnPrefix, ".", location, ".",
    AzureCloudSpecEnvMap(targetEnv).EndpointConfig.ResourceManagerVMDNSSuffix>>

FormatAzureProdFQDNByLocation(fqdnPrefix, location) ==
  FormatFQDN(fqdnPrefix, location, GetCloudTargetEnv(location))

FormatProdFQDNByLocation(fqdnPrefix, location, cloudName) ==
  FormatFQDN(fqdnPrefix, location, GetTargetEnv(location, cloudName))

LocationSamples ==
  {"", "westus2", "chinaeast", "germanycentral", "usgovvirginia", "usdodeast", "local"}

EnvironmentSamples ==
  {Nil} \cup {[TestEnvironment EXCEPT !.Name = n] :
                n \in {"", "AzureStackCloud", "azurestackcloud", "MyStack"}}

SpecConfigSamples == {Nil, SpecConfig(TestOSImageConfig), SpecConfig(<<>>)}

\* identity system and authentication method: both set, both set otherwise,
\* both left out
IdentitySamples ==
  {<<AzureADIdentitySystem, ClientSecretAuthMethod>>,
   <<ADFSIdentitySystem, ClientCertificateAuthMethod>>,
   <<"", "">>}

CloudProfileSamples ==
  {Nil} \cup {CustomCloud(e, c, i[1], i[2]) :
                e \in EnvironmentSamples, c \in SpecConfigSamples, i \in IdentitySamples}

FqdnPrefixSamples == {"", "master"}

FqdnLocationSamples == {"westus2", "chinaeast", "local"}

CloudNameSamples == {"", "AzurePublicCloud", "AzureStackCloud", "azurestackcloud", "MyStack"}

CloudInit ==
  /\ cloudCS \in {[Location |-> l, Properties |-> [CustomCloudProfile |-> c]] :
                    l \in LocationSamples, c \in CloudProfileSamples}
  /\ cloudSpec = NoDoc
  /\ cloudCall = NoDoc
  /\ cloudText = NoDoc

\* cloudSpec := cloudCS.GetCloudSpecConfig()
CallGetCloudSpecConfig ==
  /\ cloudSpec = NoDoc
  /\ cloudSpec' = GetCloudSpecConfig(cloudCS)
  /\ UNCHANGED <<cloudCS, cloudCall, cloudText, nonCloudVars>>

\* a call of a function that takes no argument
NoArgs(o) == [op |-> o, fqdnPrefix |-> "", location |-> "", cloudName |-> ""]

\* cloudText := cloudCS.Properties.GetCustomCloudAuthenticationMethod()
CallGetCustomCloudAuthenticationMethod ==
  /\ cloudCall = NoDoc
  /\ cloudCall' = NoArgs("GetCustomCloudAuthenticationMethod")
  /\ cloudText' = Returns(<<GetCustomCloudAuthenticationMethod(cloudCS.Properties)>>)
  /\ UNCHANGED <<cloudCS, cloudSpec, nonCloudVars>>

\* cloudText := cloudCS.Properties.GetCustomCloudIdentitySystem()
CallGetCustomCloudIdentitySystem ==
  /\ cloudCall = NoDoc
  /\ cloudCall' = NoArgs("GetCustomCloudIdentitySystem")
  /\ cloudText' = Returns(<<GetCustomCloudIdentitySystem(cloudCS.Properties)>>)
  /\ UNCHANGED <<cloudCS, cloudSpec, nonCloudVars>>

\* cloudText := FormatAzureProdFQDNByLocation(fqdnPrefix, location)
CallFormatAzureProdFQDNByLocation ==
  \E fqdnPrefix \in FqdnPrefixSamples, location \in FqdnLocationSamples :
    /\ cloudCall = NoDoc
    /\ cloudCall' = [op |-> "FormatAzureProdFQDNByLocation", fqdnPrefix |-> fqdnPrefix,
                     location |-> location, cloudName |-> ""]
    /\ cloudText' = Returns(FormatAzureProdFQDNByLocation(fqdnPrefix, location))
    /\ UNCHANGED <<cloudCS, cloudSpec, nonCloudVars>>

\* cloudText := FormatProdFQDNByLocation(fqdnPrefix, location, cloudName)
CallFormatProdFQDNByLocation ==
  \E fqdnPrefix \in FqdnPrefixSamples, location \in FqdnLocationSamples,
     cloudName \in CloudNameSamples :
    /\ cloudCall = NoDoc
    /\ cloudCall' = [op |-> "FormatProdFQDNByLocation", fqdnPrefix |-> fqdnPrefix,
                     location |-> location, cloudName |-> cloudName]
    /\ cloudText' = Returns(FormatProdFQDNByLocation(fqdnPrefix, location, cloudName))
    /\ UNCHANGED <<cloudCS, cloudSpec, nonCloudVars>>

CloudNext ==
  \/ CallGetCloudSpecConfig
  \/ CallGetCustomCloudAuthenticationMethod
  \/ CallGetCustomCloudIdentitySystem
  \/ CallFormatAzureProdFQDNByLocation
  \/ CallFormatProdFQDNByLocation

CloudSpecInit ==
  CloudInit /\ ClusterIdle /\ FormatIdle /\ ConvIdle /\ OvpIdle /\ StaticIPIdle /\ DeriveIdle /\ TwinIdle /\ VhdIdle
CloudSpec == CloudSpecInit /\ [][CloudNext]_vars

(***************************************************************************)
(* GetClusterID on two Properties, one call after another, lines           *)
(* 1566-1586.  Each call that finds ClusterID empty makes a generator of   *)
(* its own, r := rand.New(rand.NewSource(seed)), and draws one value.      *)
(***************************************************************************)
\* one generator shared by every call: as many values were drawn from it
\* before as IDs were computed
SharedSourcePosition(computed) == computed

\* rand.New(rand.NewSource(...)): the generator is new, r.Uint32() is its
\* first value whatever was computed before
NewSourcePosition(computed) == 0

\* the value at position n of the sequence the hashed bytes seed; the values
\* after the first are other values
Uint32At(bytes, n) ==
  IF n = 0 THEN Uint32Of(bytes)
  ELSE <<(Uint32Of(bytes)[1] + n) % 65536, Uint32Of(bytes)[2]>>

\* the Properties after GetClusterID, the call being the one after
\* `computed` computations of an ID
AfterGetClusterID(q, computed) ==
  IF ClusterIDIsEmpty(q)
  THEN [q EXCEPT !.ClusterID =
         StringOf(FormatClusterID(Uint32At(IdentifyingBytes(q), NewSourcePosition(computed))))]
  ELSE q

\* Properties that share an identifying string with one of PropertiesSamples
\* and differ from it in other fields
TwinSamples ==
  PropertiesSamples \cup
  {Props(EmptyString, DCOSProfile, Master("master", CustomSubnetID), Nil, <<WindowsPool>>, FALSE),
   Props(EmptyString, KubernetesProfile, Nil, HostedMaster("master"), <<ScaleSetPool>>, FALSE),
   Props(EmptyString, DCOSProfile, Nil, Nil, <<LinuxPool, WindowsPool>>, FALSE),
   Props(EmptyString, KubernetesProfile, Nil, Nil, <<ScaleSetPool>>, FALSE),
   Props(EmptyString, KubernetesProfile, Master("hosted", EmptySubnetID), Nil, <<>>, TRUE)}

TwinInit ==
  /\ twins \in [1..2 -> TwinSamples]
  /\ twinStart = twins
  /\ twinRet = [i \in 1..2 |-> <<>>]
  /\ drawn = 0

\* twinRet[i] := twins[i].GetClusterID()
CallGetClusterIDOnTwin ==
  \E i \in 1..2 :
    /\ twins' = [twins EXCEPT ![i] = AfterGetClusterID(twins[i], drawn)]
    /\ twinRet' = [twinRet EXCEPT ![i] = StrVal(twins'[i].ClusterID)]
    /\ drawn' = IF ClusterIDIsEmpty(twins[i]) THEN drawn + 1 ELSE drawn
    /\ UNCHANGED <<twinStart, nonTwinVars>>

TwinNext == CallGetClusterIDOnTwin

TwinSpecInit ==
  TwinInit /\ ClusterIdle /\ FormatIdle /\ ConvIdle /\ OvpIdle /\ StaticIPIdle /\ DeriveIdle
    /\ CloudIdle /\ VhdIdle
TwinSpec == TwinSpecInit /\ [][TwinNext]_vars

(***************************************************************************)
(* The VHD build script, src/unnamed/part_001: the downloads of lines      *)
(* 12-412, the disk check of lines 414-419 and the completion steps of     *)
(* lines 421-440.  The shell runs the commands one after another.          *)
(***************************************************************************)
MaxComponents == 3

\* the capacity of /dev/sda1 in percent before the first download
InitialUsages == {24, 25, 39, 40}

\* what a download adds to the capacity in use, in percent
ComponentSizes == {0, 25}

WarningLine == "WARNING: 75% of /dev/sda1 is used"
CompletionLine == "Install completed successfully on "

\* df -P: a line for each file system, as <<device, capacity>>; /dev/sda15 is
\* the EFI system partition, /dev/sdb1 the temporary disk
DfP(usage) == {<<"/dev/sda1", usage>>, <<"/dev/sda15", 4>>, <<"/dev/sdb1", 95>>}

\* grep '/dev/sda1': the lines that contain the text, /dev/sda15 among them
GrepDevSda1(lines) == {l \in lines : l[1] \in {"/dev/sda1", "/dev/sda15"}}

\* the lines whose capacity is above t
AwkAbove(lines, t) == {l \in lines : l[2] > t}

\* awk '0+$5 >= t {print}'
AwkAtLeast(lines, t) == {l \in lines : l[2] >= t}

\* the exit status of [ -s $(...) ], the substitution unquoted: without a
\* line the test is [ -s ], true of the one string "-s"; a line is six words,
\* and the test fails on its arguments with status 2
TestS(lines) == IF lines = {} THEN 0 ELSE 2

\* [ -s $(df -P | grep '/dev/sda1' | awk '0+$5 >= t {print}') ]
DiskCheck(usage, t) == TestS(AwkAtLeast(GrepDevSda1(DfP(usage)), t))

VhdInit ==
  /\ vhdPc = "install"
  /\ diskUsage \in InitialUsages
  /\ pulled = 0
  /\ releaseNotes = <<"Starting build on ">>
  /\ logDir = "/var/log"
  /\ cisApplied = FALSE
  /\ vhdExit = "running"

\* lines 12-412: a component is installed or an image pulled, and listed
PullComponent ==
  \E size \in ComponentSizes :
    /\ vhdPc = "install"
    /\ pulled < MaxComponents
    /\ pulled' = pulled + 1
    /\ diskUsage' = IF diskUsage + size > 100 THEN 100 ELSE diskUsage + size
    /\ releaseNotes' = Append(releaseNotes, "  - component")
    /\ UNCHANGED <<vhdPc, logDir, cisApplied, vhdExit, nonVhdVars>>

\* line 414: df -h, after the last download
ShowDiskUsage ==
  /\ vhdPc = "install"
  /\ vhdPc' = "warn"
  /\ UNCHANGED <<diskUsage, pulled, releaseNotes, logDir, cisApplied, vhdExit, nonVhdVars>>

\* line 417: [ -s ... 75 ... ] || echo "WARNING: ..." >> ${RELEASE_NOTES_FILEPATH}
WarnAt75 ==
  /\ vhdPc = "warn"
  /\ vhdPc' = "error"
  /\ releaseNotes' = IF DiskCheck(diskUsage, 75) # 0 THEN Append(releaseNotes, WarningLine)
                     ELSE releaseNotes
  /\ UNCHANGED <<diskUsage, pulled, logDir, cisApplied, vhdExit, nonVhdVars>>

\* line 419: [ -s ... 90 ... ] || exit 1
ExitAt90 ==
  /\ vhdPc = "error"
  /\ IF DiskCheck(diskUsage, 90) # 0
     THEN vhdPc' = "exited" /\ vhdExit' = "exit 1"
     ELSE vhdPc' = "complete" /\ UNCHANGED vhdExit
  /\ UNCHANGED <<diskUsage, pulled, releaseNotes, logDir, cisApplied, nonVhdVars>>

\* lines 421-427: { echo "Install completed successfully on " ...; } >> notes
WriteCompletion ==
  /\ vhdPc = "complete"
  /\ vhdPc' = "notes"
  /\ releaseNotes' = Append(releaseNotes, CompletionLine)
  /\ UNCHANGED <<diskUsage, pulled, logDir, cisApplied, vhdExit, nonVhdVars>>

\* lines 429-434: the release notes are printed between two markers
PrintReleaseNotes ==
  /\ vhdPc = "notes"
  /\ vhdPc' = "mv"
  /\ UNCHANGED <<diskUsage, pulled, releaseNotes, logDir, cisApplied, vhdExit, nonVhdVars>>

\* lines 437-438: sudo mv /var/log /var/log.vhd; sudo mkdir /var/log
MoveLogs ==
  /\ vhdPc = "mv"
  /\ vhdPc' = "cis"
  /\ logDir' = "/var/log.vhd"
  /\ UNCHANGED <<diskUsage, pulled, releaseNotes, cisApplied, vhdExit, nonVhdVars>>

\* line 440: applyCIS, the last command
ApplyCIS ==
  /\ vhdPc = "cis"
  /\ vhdPc' = "done"
  /\ cisApplied' = TRUE
  /\ vhdExit' = "end"
  /\ UNCHANGED <<diskUsage, pulled, releaseNotes, logDir, nonVhdVars>>

VhdNext ==
  \/ PullComponent
  \/ ShowDiskUsage
  \/ WarnAt75
  \/ ExitAt90
  \/ WriteCompletion
  \/ PrintReleaseNotes
  \/ MoveLogs
  \/ ApplyCIS

VhdSpecInit ==
  VhdInit /\ ClusterIdle /\ FormatIdle /\ ConvIdle /\ OvpIdle /\ StaticIPIdle /\ DeriveIdle
    /\ CloudIdle /\ TwinIdle
\* the shell goes on to the next command as long as there is one
VhdSpec == VhdSpecInit /\ [][VhdNext]_vars /\ WF_vars(VhdNext)

(***************************************************************************)
(* Properties of GetClusterID under concurrent calls.                      *)
(***************************************************************************)
\* the call of c was GetClusterID itself, or a method that called it
Returned(c) == pc[c] = "done" /\ ret[c].inner

\* c's call began while p.ClusterID was still empty
BeganEmpty(c) == call[c].atStart = <<>>

\* c is between mutex.Lock() and mutex.Unlock()
InCritical(c) == pc[c] \in {"store", "unlock"}

\* a string header that holds a whole, non-empty string
Complete(h) == h.len # 0 /\ h.data # NilData

\* C1: all calls of GetClusterID that began on a Properties whose ClusterID
\* was still empty return the same string, under every interleaving of their
\* reads and writes of ClusterID.
C1_AllCallsReturnSameID ==
  \A c, d \in Callers :
    (Returned(c) /\ Returned(d) /\ BeganEmpty(c) /\ BeganEmpty(d)) => ret[c].id = ret[d].id

\* C2: for one Properties instance the cluster ID is computed at most once,
\* whatever the interleaving of the GetClusterID calls; every other call reads
\* the cached value.
C2_ComputedAtMostOnce == computeCount <= 1

\* C3: the write of ClusterID is guarded by a lock shared by all callers of
\* the instance: at most one caller is between Lock and Unlock at any time.
C3_MutualExclusion ==
  \A c, d \in Callers : (c # d /\ InCritical(c)) => ~InCritical(d)

\* C4: once ClusterID holds a non-empty string no step of a GetClusterID or
\* derived-name call changes that string, and every call that began after
\* that returns it from GetClusterID.
C4_ClusterIDStable ==
  [][/\ Complete(p.ClusterID) => StrVal(p'.ClusterID) = StrVal(p.ClusterID)
     /\ \A c \in Callers :
          (Returned(c)' /\ ~BeganEmpty(c)' /\ ~IsTorn(call'[c].atStart))
            => ret'[c].id = call'[c].atStart]_clusterVars

\* C4 witness: a derived-name call that began after another call had written
\* the ID has returned with that ID, and the ID is still in place.
C4_Witness ==
  \E c, d \in Callers :
    /\ c # d /\ Returned(c) /\ Returned(d)
    /\ BeganEmpty(d)
    /\ call[c].op = "GetMasterVMPrefix"
    /\ call[c].atStart = ClusterIDFor(p)
    /\ ret[c].id = ClusterIDFor(p)
    /\ StrVal(p.ClusterID) = ClusterIDFor(p)

\* c has written the bytes to the hash and not yet returned
HasHashed(c) == pc[c] \in {"lock", "store", "unlock"}

\* C6: GetClusterID hashes the master DNS prefix when there is a master
\* profile, else the hosted-master DNS prefix when there is a hosted-master
\* profile, else the name of the first agent pool; a lower-priority string is
\* hashed only when no higher-priority profile is present.
C6_HashPriority ==
  \A c \in Callers :
    HasHashed(c) =>
      /\ p.MasterProfile # Nil => local[c].hashed = p.MasterProfile.DNSPrefix
      /\ (p.MasterProfile = Nil /\ p.HostedMasterProfile # Nil)
           => local[c].hashed = p.HostedMasterProfile.DNSPrefix
      /\ (p.MasterProfile = Nil /\ p.HostedMasterProfile = Nil
            /\ Len(p.AgentPoolProfiles) > 0)
           => local[c].hashed = p.AgentPoolProfiles[1].Name
      /\ (p.MasterProfile = Nil /\ p.HostedMasterProfile = Nil
            /\ Len(p.AgentPoolProfiles) = 0)
           => local[c].hashed = ""

\* C6 witness: with a master and a hosted-master profile both present, the
\* master DNS prefix was hashed.
C6_Witness ==
  \E c \in Callers :
    /\ HasHashed(c)
    /\ p.MasterProfile # Nil /\ p.HostedMasterProfile # Nil
    /\ local[c].hashed = "master"

(***************************************************************************)
(* Properties of the formatting.                                           *)
(***************************************************************************)
RECURSIVE NumVal(_)
\* the number a sequence of decimal digits denotes
NumVal(s) == IF s = <<>> THEN 0
             ELSE (NumVal(SubSeq(s, 1, Len(s) - 1)) * 10)
                  + ((CHOOSE i \in 1..10 : DigitChars[i] = s[Len(s)]) - 1)

\* the first 8 decimal digits of u as a number, for a u of 9 or 10 digits;
\* u itself when it has at most 8
First8(u) ==
  IF Upper(u) < 100000 THEN (Upper(u) * 1000) + Lower3(u)
  ELSE IF Upper(u) < 1000000 THEN (Upper(u) * 100) + (Lower3(u) \div 10)
  ELSE (Upper(u) * 10) + (Lower3(u) \div 100)

\* C5: for every uint32 the string GetClusterID stores has exactly 8
\* characters, all decimal digits: the number zero-padded on the left when it
\* has fewer than 8 digits, its first 8 digits when it has 9 or 10.
C5_EightDigits ==
  formatted # <<>> =>
    /\ Len(formatted) = 8
    /\ \A i \in 1..Len(formatted) : IsDigitChar(formatted[i])
    /\ NumVal(formatted) = First8(u32)
    /\ u32 = <<65535, 65535>> => formatted = <<"4", "2", "9", "4", "9", "6", "7", "2">>
    /\ u32 = <<0, 9>> => formatted = <<"0", "0", "0", "0", "0", "0", "0", "9">>

\* C5 witness: a 10-digit value was cut to its first 8 digits.
C5_Witness ==
  /\ formatted # <<>>
  /\ Len(DecimalOf(u32)) = 10
  /\ Len(formatted) = 8

(***************************************************************************)
(* Properties of the version converters.                                   *)
(***************************************************************************)
\* a valid canonical document holds no deprecated distro alias (ToCanonical
\* never stores one), an orchestrator type and enum values of the closed sets
ValidCanonical(c) ==
  /\ \A f \in DistroFields : c[f].name \notin DeprecatedDistros
  /\ c[FOrchestratorType] # ""
  /\ \A f \in EnumFields : c[f] \in ClosedSet(f)

Converted == convPc \in {"external", "back"}

OSImageConfigOf(doc) ==
  IF FCustomCloudProfile \notin DOMAIN doc THEN <<>>
  ELSE IF doc[FCustomCloudProfile] = Nil THEN <<>>
  ELSE IF doc[FCustomCloudProfile].AzureEnvironmentSpecConfig = Nil THEN <<>>
  ELSE doc[FCustomCloudProfile].AzureEnvironmentSpecConfig.OSImageConfig

\* every key of the maps of src that is not removed in ver is a key of the
\* maps of dst, re-keyed into package to, with the same value
KeysPreserved(src, dst, to) ==
  /\ \A k \in DOMAIN src[FAddonConfig] :
       k \notin RemovedKeys(ver) =>
         /\ k \in DOMAIN dst[FAddonConfig]
         /\ dst[FAddonConfig][k] = src[FAddonConfig][k]
  /\ \A k \in DOMAIN OSImageConfigOf(src) :
       k.name \notin RemovedKeys(ver) =>
         /\ [pkg |-> to, name |-> k.name] \in DOMAIN OSImageConfigOf(dst)
         /\ \A g \in AzureOSImageConfigFields :
              OSImageConfigOf(dst)[[pkg |-> to, name |-> k.name]][g] = OSImageConfigOf(src)[k][g]

\* C9: converting a map-valued field (the OS image config keyed by distro, an
\* addon config keyed by string) preserves every key of the source map, a key
\* that is no known distro such as "Test" included, with the same value,
\* except the keys listed as removed in the target version.
C9_MapKeysPreserved ==
  /\ (Converted /\ ver = "vlabs") => KeysPreserved(cs, ext, "vlabs")
  /\ (convPc = "back" /\ ver = "vlabs") => KeysPreserved(ext, back, "api")

C9_Witness ==
  /\ convPc = "external"
  /\ ver = "vlabs"
  /\ ApiDistro("Test") \in DOMAIN OSImageConfigOf(cs)
  /\ VLabsDistro("Test") \in DOMAIN OSImageConfigOf(ext)
  /\ OSImageConfigOf(ext)[VLabsDistro("Test")].ImageSku = "ImageSku"
  /\ VLabsDistro(AKSUbuntu1604) \in DOMAIN OSImageConfigOf(ext)
  /\ "hostPath" \in DOMAIN ext[FAddonConfig]

\* the fields `fields` of struct t equal those of struct s
SameFields(s, t, fields) == \A f \in fields : t[f] = s[f]

\* C10: ConvertContainerServiceToVLabs copies a CustomCloudProfile field by
\* field with no change of value: IdentitySystem, AuthenticationMethod, every
\* endpoint and suffix of Environment and every field of
\* AzureEnvironmentSpecConfig (CloudName, the Kubernetes, Docker and DCOS
\* sub-configs, EndpointConfig) of the vlabs result equal the canonical ones.
C10_CustomCloudProfileCopied ==
  (Converted /\ ver = "vlabs" /\ cs[FCustomCloudProfile] # Nil) =>
    LET s == cs[FCustomCloudProfile]
        t == ext[FCustomCloudProfile]
    IN /\ t # Nil
       /\ t.pkg = "vlabs"
       /\ t.IdentitySystem = s.IdentitySystem
       /\ t.AuthenticationMethod = s.AuthenticationMethod
       /\ (s.Environment = Nil) = (t.Environment = Nil)
       /\ s.Environment # Nil => SameFields(s.Environment, t.Environment, EnvironmentFields)
       /\ (s.AzureEnvironmentSpecConfig = Nil) = (t.AzureEnvironmentSpecConfig = Nil)
       /\ s.AzureEnvironmentSpecConfig # Nil =>
            LET a == s.AzureEnvironmentSpecConfig
                b == t.AzureEnvironmentSpecConfig
            IN /\ b.CloudName = a.CloudName
               /\ SameFields(a.KubernetesSpecConfig, b.KubernetesSpecConfig, KubernetesSpecConfigFields)
               /\ SameFields(a.DockerSpecConfig, b.DockerSpecConfig, DockerSpecConfigFields)
               /\ SameFields(a.DCOSSpecConfig, b.DCOSSpecConfig, DCOSSpecConfigFields)
               /\ SameFields(a.EndpointConfig, b.EndpointConfig, AzureEndpointConfigFields)

C10_Witness ==
  /\ convPc = "external"
  /\ ver = "vlabs"
  /\ cs[FCustomCloudProfile] # Nil
  /\ cs[FCustomCloudProfile].Environment # Nil
  /\ cs[FCustomCloudProfile].AzureEnvironmentSpecConfig # Nil
  /\ ext[FCustomCloudProfile].IdentitySystem = ADFSIdentitySystem
  /\ ext[FCustomCloudProfile].Environment.GalleryEndpoint = "env.GalleryEndpoint"
  /\ ext[FCustomCloudProfile].AzureEnvironmentSpecConfig.KubernetesSpecConfig.EtcdDownloadURLBase
       = "EtcdDownloadURLBase"

(***************************************************************************)
(* Properties of ConvertOrchestratorVersionProfileToVLabs.                 *)
(***************************************************************************)
\* C11: the converted profile has as many upgrade targets as the source, the
\* i-th target has the orchestrator type and the version string of the i-th
\* source target, and the conversion leaves the canonical profile as it was.
C11_UpgradesPreserved ==
  /\ [](vlabsOvp # NoDoc =>
          /\ Len(vlabsOvp.Upgrades) = Len(ovp.Upgrades)
          /\ \A i \in 1..Len(ovp.Upgrades) :
               /\ vlabsOvp.Upgrades[i].OrchestratorType = ovp.Upgrades[i].OrchestratorType
               /\ vlabsOvp.Upgrades[i].OrchestratorVersion = ovp.Upgrades[i].OrchestratorVersion)
  /\ [][ovp' = ovp]_ovpVars

C11_Witness ==
  /\ vlabsOvp # NoDoc
  /\ Len(ovp.Upgrades) = 2
  /\ ovp.Upgrades[1].OrchestratorVersion = "1.10.13"
  /\ ovp.Upgrades[2].OrchestratorVersion = "1.11.6"
  /\ vlabsOvp.Upgrades[1] = Orchestrator("vlabs", Kubernetes, "1.10.13")
  /\ vlabsOvp.Upgrades[2] = Orchestrator("vlabs", Kubernetes, "1.11.6")

(***************************************************************************)
(* Failure of a conversion.                                                *)
(***************************************************************************)
\* the canonical document c lacks the orchestrator type or holds, in an enum
\* field version V has, a value outside the closed set
CanonicalWrong(V, c) ==
  \/ c[FOrchestratorType] = ""
  \/ \E f \in EnumFields \cap FieldsOf(V) : c[f] \notin ClosedSet(f)

\* the same of an external document x of version V
ExternalWrong(V, x) ==
  \/ FOrchestratorType \notin DOMAIN x
  \/ x[FOrchestratorType] = ""
  \/ \E f \in (EnumFields \cap DOMAIN x) \cap FieldsOf(V) : x[f] \notin ClosedSet(f)

ExternalZero(f) ==
  CASE f \in DistroFields -> VLabsDistro("")
    [] f = FAddonConfig -> <<>>
    [] f = FCustomCloudProfile -> Nil
    [] OTHER -> ""

\* C13: ConvertContainerServiceToV20160330, ToV20160930, ToV20170131,
\* ToV20170701 and ToVLabs return an external document and no error for
\* every canonical document, whatever optional fields are absent or hold
\* values the version cannot represent: the document has the fields of the
\* version and no other, and an absent field is at its zero value.
C13_OptionalFieldsNeverFail ==
  Converted =>
    /\ ext # NoDoc
    /\ convPc = "external" => convErr = ""
    /\ DOMAIN ext = FieldsOf(ver)
    /\ \A f \in FieldsOf(ver) : cs[f] = ZeroValue(f) => ext[f] = ExternalZero(f)

C13_Witness ==
  /\ convPc = "external"
  /\ ver = "v20160330"
  /\ cs[FCustomCloudProfile] # Nil
  /\ cs[FMasterDistro].name = AKSUbuntu1604
  /\ cs[FOrchestratorVersion] # ""
  /\ ext # NoDoc
  /\ DOMAIN ext = {FOrchestratorType, FMasterDNSPrefix}

(***************************************************************************)
(* Properties of GetFirstConsecutiveStaticIPAddress.                       *)
(***************************************************************************)
\* the well-formed subnets among the samples: four numbers of at most 255
\* and a prefix length of at most 32
WellFormedAddressTexts ==
  {<<"1", "0", ".", "2", "4", "0", ".", "0", ".", "0">>,
   <<"1", "0", ".", "2", "4", "0", ".", "1", "6", ".", "0">>,
   <<"1", "9", "2", ".", "1", "6", "8", ".", "1", ".", "7", "7">>,
   <<"0", ".", "0", ".", "0", ".", "0">>,
   <<"2", "5", "5", ".", "2", "5", "5", ".", "2", "5", "5", ".", "2", "5", "5">>,
   <<"1", "0", ".", "0", ".", "0", ".", "1">>}
WellFormedPrefixLengthTexts ==
  {<<"0">>,
   <<"7">>,
   <<"8">>,
   <<"1", "2">>,
   <<"1", "6">>,
   <<"2", "0">>,
   <<"2", "4">>,
   <<"2", "5">>,
   <<"3", "1">>,
   <<"3", "2">>}
WellFormedSubnets ==
  {a \o <<"/">> \o n : a \in WellFormedAddressTexts, n \in WellFormedPrefixLengthTexts}

\* the network address of a well-formed subnet and its prefix length, read
\* off the text
NetworkOf(s) ==
  LET parts == Split(s, "/")
      addr == Split(parts[1], ".")
      ones == NumVal(parts[2])
  IN [ip |-> [i \in 1..4 |-> MaskByte(NumVal(addr[i]), PrefixBits(ones, i - 1))], ones |-> ones]

\* the four numbers of a dotted decimal address
OctetsOf(text) == [i \in 1..4 |-> NumVal(Split(text, ".")[i])]

IsAddressText(text) ==
  /\ Len(Split(text, ".")) = 4
  /\ \A i \in 1..4 : Split(text, ".")[i] # <<>> /\ \A j \in 1..Len(Split(text, ".")[i]) :
       IsDigitChar(Split(text, ".")[i][j])

\* C14: for a well-formed subnet the function returns, for a VMSS master,
\* the network address with only its last octet replaced by 4 and, for a
\* non-VMSS master, the network address with every octet of host bits
\* before the last octet set to 255 (the network bits of an octet kept) and
\* the last octet set to 5; "10.240.0.0/16" gives 10.240.255.5 and 10.240.0.4.
C14_FirstStaticIP ==
  (staticIP # NotCalled /\ subnetCIDR \in WellFormedSubnets) =>
    /\ IsAddressText(staticIP)
    /\ LET net == NetworkOf(subnetCIDR)
           r == OctetsOf(staticIP)
       IN IF masterAvailabilityProfile = VirtualMachineScaleSets
          THEN r = [net.ip EXCEPT ![4] = 4]
          ELSE /\ r[4] = 5
               /\ \A i \in 1..3 :
                    /\ PrefixBits(net.ones, i - 1) = 0 => r[i] = 255
                    /\ PrefixBits(net.ones, i - 1) = 8 => r[i] = net.ip[i]
                    /\ MaskByte(r[i], PrefixBits(net.ones, i - 1)) = net.ip[i]

\* the malformed subnets among the samples
MalformedSubnets == SubnetSamples \ WellFormedSubnets

\* C15: for every input that is no well-formed CIDR the function returns
\* the default 10.240.255.5, for a VMSS master as for a non-VMSS master, and
\* does not fail.
C15_MalformedGivesDefault ==
  (staticIP # NotCalled /\ subnetCIDR \in MalformedSubnets) =>
    staticIP = <<"1", "0", ".", "2", "4", "0", ".", "2", "5", "5", ".", "5">>

C15_Witness ==
  /\ staticIP # NotCalled
  /\ subnetCIDR = <<"n", "o", "t", "-", "a", "-", "c", "i", "d", "r">>
  /\ masterAvailabilityProfile = VirtualMachineScaleSets
  /\ staticIP = DefaultFirstConsecutiveKubernetesStaticIP

\* C25: for every well-formed CIDR, of every prefix length up to /32 where
\* the subnet has no host bits, and for a VMSS as for a non-VMSS master, the
\* function returns an address and does not fault on an octet index
C25_NeverFaults ==
  (staticIP # NotCalled /\ subnetCIDR \in WellFormedSubnets) =>
    staticIP # Panic /\ IsAddressText(staticIP)

\* C26: for every well-formed IPv4 CIDR the address returned lies inside the
\* subnet: its network-prefix bits are those of the subnet, for a VMSS and
\* for a non-VMSS master, prefixes longer than /24 included
C26_InsideSubnet ==
  (staticIP # NotCalled /\ subnetCIDR \in WellFormedSubnets /\ IsAddressText(staticIP)) =>
    \A i \in 1..4 :
      MaskByte(OctetsOf(staticIP)[i], PrefixBits(NetworkOf(subnetCIDR).ones, i - 1))
        = NetworkOf(subnetCIDR).ip[i]

(***************************************************************************)
(* Properties of the derived-property functions called one after another.  *)
(***************************************************************************)
\* the call made last was o
Called(o) == derivedCall # NoDoc /\ derivedCall.op = o

\* some agent pool of the Properties has OSType Windows
SomePoolIsWindows ==
  \E i \in DOMAIN props.AgentPoolProfiles : props.AgentPoolProfiles[i].OSType = "Windows"

\* C16: HasWindows returns true if and only if at least one agent pool has
\* OSType Windows, and so returns false for an empty and for a nil pool list
C16_HasWindows ==
  Called("HasWindows") =>
    /\ derived = Returns(SomePoolIsWindows)
    /\ props.AgentPoolProfiles = <<>> => derived = Returns(FALSE)

\* HasWindows returned true for a list whose second pool alone is Windows
C16_Witness ==
  /\ Called("HasWindows")
  /\ derived = Returns(TRUE)
  /\ Len(props.AgentPoolProfiles) = 2
  /\ props.AgentPoolProfiles[1].OSType = "Linux"

\* the predicates that scan the agent pools
Predicates ==
  {"HasWindows", "HasCoreOS", "HasManagedDisks", "AnyAgentUsesVirtualMachineScaleSets"}

\* the naming functions, and GetClusterMetadata that calls them
NamingFunctions ==
  {"GetMasterVMPrefix", "GetResourcePrefix", "GetNSGName", "GetRouteTableName",
   "GetAgentVMPrefix", "GetPrimaryAvailabilitySetName", "GetPrimaryScaleSetName",
   "GetVirtualNetworkName", "GetClusterMetadata"}

\* the call made last was of a function of S
CalledOneOf(S) == derivedCall # NoDoc /\ derivedCall.op \in S

\* the call left every field of the Properties but ClusterID as it was
OnlyClusterIDMayChange == [props EXCEPT !.ClusterID = propsAtCall.ClusterID] = propsAtCall

\* the call left ClusterID as it was
ClusterIDUnchanged == StrVal(props.ClusterID) = StrVal(propsAtCall.ClusterID)

\* the call stored in an empty ClusterID the ID computed from the DNS prefix
MemoizesClusterID ==
  /\ StrVal(propsAtCall.ClusterID) = <<>>
  /\ StrVal(props.ClusterID) = FormatClusterID(Uint32Of(IdentifyingBytes(propsAtCall)))

\* C17, as stated: a call of a predicate or of a naming function leaves every
\* field of the Properties unchanged
C17_DerivedFunctionsChangeNothing ==
  CalledOneOf(Predicates \cup NamingFunctions) =>
    ClusterIDUnchanged /\ OnlyClusterIDMayChange

\* C17, amended: a call of a predicate leaves every field of the Properties
\* unchanged; a call of a naming function leaves every field but ClusterID
\* unchanged, and changes ClusterID only as the GetClusterID it calls does:
\* from empty to the memoized ID
C17_OnlyClusterIDMemoized ==
  /\ CalledOneOf(Predicates) => ClusterIDUnchanged /\ OnlyClusterIDMayChange
  /\ CalledOneOf(NamingFunctions) =>
       /\ OnlyClusterIDMayChange
       /\ ClusterIDUnchanged \/ MemoizesClusterID

\* GetMasterVMPrefix returned for a Properties whose ClusterID was empty,
\* and the Properties now holds the memoized ID
C17_Witness ==
  /\ Called("GetMasterVMPrefix")
  /\ derived # Panicked
  /\ StrVal(propsAtCall.ClusterID) = <<>>
  /\ StrVal(props.ClusterID) = FormatClusterID(Uint32Of(IdentifyingBytes(props)))

\* the Properties has a hosted master and a first agent pool, and every
\* agent pool has a custom VNET
HostedCustomVNET ==
  /\ props.HostedMasterProfile # Nil
  /\ Len(props.AgentPoolProfiles) > 0
  /\ \A i \in DOMAIN props.AgentPoolProfiles : props.AgentPoolProfiles[i].VnetSubnetID # <<"">>

\* the Properties has no hosted master, and its master has a custom VNET
SelfHostedCustomVNET ==
  /\ props.HostedMasterProfile = Nil
  /\ props.MasterProfile # Nil
  /\ props.MasterProfile.VnetSubnetID # <<"">>

\* the call returned the segment of id at index i, counted from 0 as
\* strings.Split numbers them; an id without that segment has none to return
ReturnedSegment(id, i) ==
  IF Len(id) > i THEN derived = Returns(<<id[i + 1]>>) ELSE derived = Panicked

\* the call read index i of the subnet ID the custom-VNET path uses
ReadsCustomSubnetID(i) ==
  /\ HostedCustomVNET => ReturnedSegment(props.AgentPoolProfiles[1].VnetSubnetID, i)
  /\ SelfHostedCustomVNET => ReturnedSegment(props.MasterProfile.VnetSubnetID, i)

\* C18: on the custom-VNET path GetVNetResourceGroupName returns segment 4,
\* GetVirtualNetworkName segment 8 and GetSubnetName segment 10 of the
\* subnet resource ID split on "/"; the ID is the first agent pool's for a
\* hosted master whose pools all have a custom VNET, the master's for a
\* self-hosted cluster
C18_CustomVNETSegments ==
  /\ Called("GetVNetResourceGroupName") => ReadsCustomSubnetID(4)
  /\ Called("GetVirtualNetworkName") => ReadsCustomSubnetID(8)
  /\ Called("GetSubnetName") => ReadsCustomSubnetID(10)

\* GetSubnetName returned the subnet of the first of two agent pools with
\* different custom VNETs, for a hosted master beside a master profile that
\* has a custom VNET of its own
C18_Witness ==
  /\ Called("GetSubnetName")
  /\ HostedCustomVNET
  /\ Len(props.AgentPoolProfiles) = 2
  /\ props.AgentPoolProfiles[1].VnetSubnetID # props.AgentPoolProfiles[2].VnetSubnetID
  /\ props.MasterProfile # Nil
  /\ props.MasterProfile.VnetSubnetID = CustomSubnetID
  /\ derived = Returns(<<"agentsubnet">>)

\* the orchestrator short name of a Kubernetes cluster
ShortName == IF props.HostedMasterProfile # Nil THEN "aks" ELSE "k8s"

\* the call was made on a Kubernetes cluster and returned a name
ReturnedKubernetesName ==
  /\ derived # Panicked
  /\ derived.value # <<>>
  /\ props.OrchestratorProfile # Nil
  /\ props.OrchestratorProfile.OrchestratorType = "Kubernetes"

\* x is one of the parts the name is concatenated from
HasPart(name, x) == \E i \in DOMAIN name : name[i] = x

\* the functions that return a VM prefix, an NSG, route-table or scale-set name
ShortNameFunctions ==
  {"GetMasterVMPrefix", "GetAgentVMPrefix", "GetResourcePrefix", "GetNSGName",
   "GetRouteTableName", "GetPrimaryScaleSetName"}

\* the call returned the subnet name of a cluster without custom VNET
ReturnedDefaultSubnetName ==
  /\ Called("GetSubnetName")
  /\ ~HostedCustomVNET
  /\ ~SelfHostedCustomVNET

\* the short name is a part of the names of ShortNameFunctions and of the
\* default subnet name
ShortNameInPrefixedNames ==
  /\ CalledOneOf(ShortNameFunctions) /\ ReturnedKubernetesName =>
       HasPart(derived.value, ShortName)
  /\ ReturnedDefaultSubnetName /\ ReturnedKubernetesName =>
       derived.value = <<ShortName, "-subnet">>

\* C19, as stated: the orchestrator short name ("aks" with a hosted master,
\* "k8s" without) is part of every derived name of a Kubernetes cluster: VM
\* prefix, default subnet name, NSG name, route-table name, availability-set
\* name and scale-set name
C19_ShortNameInEveryName ==
  /\ ShortNameInPrefixedNames
  /\ Called("GetPrimaryAvailabilitySetName") /\ ReturnedKubernetesName =>
       HasPart(derived.value, ShortName)

\* C19, amended: the short name is part of the VM prefixes, the resource
\* prefix, the default subnet name, the NSG name, the route-table name and
\* the scale-set name; the availability-set name is the first pool's name,
\* "-availabilitySet-" and the cluster ID, without the short name
C19_ShortNameInPrefixedNames ==
  /\ ShortNameInPrefixedNames
  /\ Called("GetPrimaryAvailabilitySetName") /\ ReturnedKubernetesName =>
       derived.value = <<props.AgentPoolProfiles[1].Name, "-availabilitySet-">>
                         \o StrVal(props.ClusterID)

\* the availability-set name of a hosted Kubernetes cluster was returned,
\* and "aks" is no part of it
C19_Witness ==
  /\ Called("GetPrimaryAvailabilitySetName")
  /\ ReturnedKubernetesName
  /\ props.HostedMasterProfile # Nil
  /\ ~HasPart(derived.value, "aks")

\* the Properties the call was made on has a hosted master or a master, and
\* an orchestrator profile
HasTopology ==
  /\ propsAtCall.HostedMasterProfile # Nil \/ propsAtCall.MasterProfile # Nil
  /\ propsAtCall.OrchestratorProfile # Nil

\* C27: GetSubnetName, GetVirtualNetworkName and GetVNetResourceGroupName
\* return a string and do not fault for a Properties that has a hosted master
\* or a master: for a VnetSubnetID of fewer than 11 segments, and for a hosted
\* master with an empty non-nil agent-pool list
C27_VNETNamesNeverFault ==
  /\ CalledOneOf({"GetSubnetName", "GetVirtualNetworkName", "GetVNetResourceGroupName"})
  /\ HasTopology
  => derived # Panicked

\* C28: HasManagedDisks and HasStorageAccountDisks return a boolean and do
\* not fault for every Properties, one whose PrivateCluster is set while its
\* Enabled flag is nil included
C28_DiskPredicatesNeverFault ==
  CalledOneOf({"HasManagedDisks", "HasStorageAccountDisks"}) =>
    derived # Panicked /\ derived.value \in BOOLEAN

\* what the call of o returns or does on the Properties q; o takes no index
\* and reads no cluster ID
OutcomeOn(q, o) ==
  IF DerivePanics(q, o, -1, <<>>) THEN Panicked ELSE Returns(DeriveValue(q, o, -1, <<>>))

\* the call left the two master profiles as they were
TopologyAsGiven ==
  /\ props.HostedMasterProfile = propsAtCall.HostedMasterProfile
  /\ props.MasterProfile = propsAtCall.MasterProfile

OutcomeOfCallOn(q) ==
  LET id == StrVal(WithClusterID(q).ClusterID) IN
  IF DerivePanics(q, derivedCall.op, derivedCall.index, id) THEN Panicked
  ELSE Returns(DeriveValue(q, derivedCall.op, derivedCall.index, id))

\* the Properties the call was made on, its OrchestratorProfile without DcosConfig
WithoutDcosConfig == [propsAtCall EXCEPT !.OrchestratorProfile.DcosConfig = Nil]

CarriesInlineSpecConfig ==
  /\ cloudCS.Properties.CustomCloudProfile # Nil
  /\ cloudCS.Properties.CustomCloudProfile.AzureEnvironmentSpecConfig # Nil

\* C20: when the cluster spec has a CustomCloudProfile that carries an
\* AzureEnvironmentSpecConfig, GetCloudSpecConfig returns that inline
\* AzureEnvironmentSpecConfig and not the entry of the static table
C20_InlineSpecConfigPreferred ==
  cloudSpec # NoDoc /\ CarriesInlineSpecConfig =>
    cloudSpec = Returns(cloudCS.Properties.CustomCloudProfile.AzureEnvironmentSpecConfig)

\* the Properties has a CustomCloudProfile: the cluster is on Azure Stack
OnAzureStack == cloudCS.Properties.CustomCloudProfile # Nil

\* the call made last on the cloud functions was o
CloudCalled(o) == cloudCall # NoDoc /\ cloudCall.op = o

\* the configured text, or the default where none is configured
ConfiguredOr(text, default) == IF text # "" THEN text ELSE default

\* C24: GetCustomCloudAuthenticationMethod returns "client_secret" without
\* a CustomCloudProfile, and on Azure Stack the configured
\* AuthenticationMethod, "client_secret" where none is specified;
\* GetCustomCloudIdentitySystem likewise returns "azure_ad" without a
\* CustomCloudProfile or where IdentitySystem is not specified, and the
\* configured value otherwise
C24_DefaultWhereNotSpecified ==
  /\ CloudCalled("GetCustomCloudAuthenticationMethod") =>
       cloudText = Returns(<<IF OnAzureStack
         THEN ConfiguredOr(cloudCS.Properties.CustomCloudProfile.AuthenticationMethod,
                           "client_secret")
         ELSE "client_secret">>)
  /\ CloudCalled("GetCustomCloudIdentitySystem") =>
       cloudText = Returns(<<IF OnAzureStack
         THEN ConfiguredOr(cloudCS.Properties.CustomCloudProfile.IdentitySystem, "azure_ad")
         ELSE "azure_ad">>)

\* the cloud name given is none of the five names of the registry, in
\* whatever case "AzureStackCloud" is written
UnknownCloudName ==
  /\ cloudCall.cloudName # ""
  /\ cloudCall.cloudName \notin RegistryKeys
  /\ ~EqualFoldAzureStackCloud(cloudCall.cloudName)

\* C21: a lookup of the cloud spec registry with a cloud name that is none
\* of the five recognized names fails, unless a CustomCloudProfile is
\* present, and no lookup returns the empty spec config as if it were valid
C21_UnknownCloudNameFails ==
  /\ CloudCalled("FormatProdFQDNByLocation") /\ UnknownCloudName => cloudText = Panicked
  /\ /\ cloudCall # NoDoc
     /\ cloudCall.op \in {"FormatProdFQDNByLocation", "FormatAzureProdFQDNByLocation"}
     /\ cloudText # Panicked
     => cloudText.value[5] # ""
  /\ cloudSpec # Returns(ZeroSpecConfig)

(***************************************************************************)
(* Properties of GetClusterID on two Properties.                           *)
(***************************************************************************)
\* both calls were made, on Properties whose ClusterID was empty
BothComputed ==
  /\ twinRet[1] # <<>>
  /\ twinRet[2] # <<>>
  /\ twinStart[1].ClusterID.len = 0
  /\ twinStart[2].ClusterID.len = 0

\* the string GetClusterID hashes: the master's DNS prefix, else the hosted
\* master's, else the first agent pool's name, else nothing
IdentifyingString(q) ==
  IF q.MasterProfile # Nil THEN q.MasterProfile.DNSPrefix
  ELSE IF q.HostedMasterProfile # Nil THEN q.HostedMasterProfile.DNSPrefix
  ELSE IF Len(q.AgentPoolProfiles) > 0 THEN q.AgentPoolProfiles[1].Name
  ELSE ""

\* C29: two Properties with empty ClusterID and the same identifying string
\* get the same cluster ID, whatever their other fields hold and whichever
\* was called first
C29_SameStringSameID ==
  BothComputed /\ IdentifyingString(twinStart[1]) = IdentifyingString(twinStart[2])
    => twinRet[1] = twinRet[2]

\* a self-hosted DC/OS cluster and a hosted Kubernetes cluster with the same
\* DNS prefix got the same ID
C29_Witness ==
  /\ BothComputed
  /\ twinStart[1].MasterProfile # Nil
  /\ twinStart[2].MasterProfile = Nil
  /\ twinStart[2].HostedMasterProfile # Nil
  /\ twinStart[1].OrchestratorProfile # twinStart[2].OrchestratorProfile
  /\ IdentifyingString(twinStart[1]) = "master"
  /\ IdentifyingString(twinStart[2]) = "master"
  /\ twinRet[1] = twinRet[2]

(***************************************************************************)
(* Properties of the VHD build script.                                     *)
(***************************************************************************)
\* the script is past its downloads / past line 417
PastDownloads == vhdPc # "install"
PastWarning == vhdPc \notin {"install", "warn"}

\* the line is in the release notes
Noted(line) == \E i \in DOMAIN releaseNotes : releaseNotes[i] = line

\* the first line of the release notes that is `line`
FirstNoted(line) == CHOOSE i \in DOMAIN releaseNotes : releaseNotes[i] = line

\* at 90% and more nothing of the completion happens; the completion
\* record, the move of /var/log and applyCIS happen in that order, and at 75%
\* and more after the warning
CompletionGated ==
  /\ PastDownloads /\ diskUsage >= 90 =>
       ~Noted(CompletionLine) /\ logDir = "/var/log" /\ ~cisApplied /\ vhdExit # "end"
  /\ PastWarning /\ diskUsage >= 75 => Noted(WarningLine)
  /\ Noted(CompletionLine) /\ diskUsage >= 75 =>
       FirstNoted(WarningLine) < FirstNoted(CompletionLine)
  /\ logDir = "/var/log.vhd" => Noted(CompletionLine)
  /\ cisApplied => logDir = "/var/log.vhd"

\* nothing is downloaded once df has been run
NoDownloadAfterCheck == PastDownloads => pulled' = pulled /\ diskUsage' = diskUsage

\* C30: the disk check comes after every download and before completion; at
\* 90% and more of /dev/sda1 in use the script exits with status 1 without
\* completion record, move of /var/log or applyCIS; from 75% to below 90% it
\* appends the warning and goes on through the completion record, the move
\* of /var/log and applyCIS, in that order
C30_DiskCheckGatesCompletion ==
  /\ []CompletionGated
  /\ [][NoDownloadAfterCheck]_vhdVars
  /\ (PastDownloads /\ diskUsage >= 90) ~> (vhdExit = "exit 1")
  /\ (PastDownloads /\ diskUsage >= 75 /\ diskUsage < 90) ~> cisApplied

\* the script ran to its end at exactly 75%, the warning in its notes
C30_Witness ==
  /\ vhdPc = "done"
  /\ diskUsage = 75
  /\ Noted(WarningLine)
  /\ cisApplied

====
